---------------------------- MODULE Spec2Model ----------------------------
(***************************************************************************)
(* State-machine model of the quiz application (src/unnamed/part_001, the  *)
(* newest of the three revisions of script.js kept under src/).            *)
(*                                                                         *)
(* JavaScript strings are sequences of one-character strings, so that the  *)
(* fuzzy matcher can index them.  A JavaScript scalar is a record          *)
(* [t |-> tag, s |-> text]: tag "str" (text = the string), "num" (text =   *)
(* the decimal rendering String(n)), "null" or "undef" (key absent).       *)
(***************************************************************************)
EXTENDS Integers, Sequences, FiniteSets, TLC

VARIABLES
    rawData,                    \* category -> sequence of items (init's fetch)
    selectedCategories,         \* the categories checked when Start was clicked
    questionPool,               \* sequence of questions
    currentSessionQuestions,    \* the questions of the session, in order
    currentQuestionIndex,
    sessionScore,
    sessionStreak,
    bestStreak,                 \* a JavaScript number: [nan, n]
    typedProbByCategory,        \* category -> hundredths, NoNumber when unset
    categoryMeta,               \* category -> rawData._meta[category]
    fetched,                    \* init(): "pending", "ok" or "failed"
    highscore,                  \* localStorage 'quiz_highscore'
    typedProbInput,             \* category -> value of its input.typed-prob
    setupHidden,                \* #setup carries class hidden
    quizAreaHidden,             \* #quizArea carries class hidden
    form,                       \* what #answersForm holds
    nextBtnDisabled,
    feedback,                   \* what #feedback shows
    input,      \* arguments handed to the function under check
    output      \* [done, r]: whether the function has run, and what it returned

dataVars == <<rawData, selectedCategories, questionPool>>

counters == <<sessionScore, sessionStreak, bestStreak, highscore>>

sessionVars ==
    <<currentSessionQuestions, currentQuestionIndex, counters, typedProbByCategory,
      categoryMeta, fetched, typedProbInput, setupHidden, quizAreaHidden, form,
      nextBtnDisabled, feedback>>

progVars == <<dataVars, sessionVars>>

vars == <<progVars, input, output>>

-----------------------------------------------------------------------------
(* Program constants                                                       *)

MAX_OPTIONS == 4

-----------------------------------------------------------------------------
(* Bounds                                                                  *)

MaxLen == 3     \* longest typed answer / expected name, in characters
MaxOthers == 3  \* items beside the searched one in a combination search
MaxItems == 3   \* items of a generated category
MaxChoiceItems == 5 \* items of a category answer options are drawn from
FullShuffleLen == 5 \* lists up to this length are shuffled in every possible way
RandomStreams == 2  \* longer lists: this many streams of Math.random() values

-----------------------------------------------------------------------------
(* Generic sequence helpers                                                *)

NotRun == [done |-> FALSE, r |-> <<>>]

Returned(r) == [done |-> TRUE, r |-> r]

Range(s) == {s[i] : i \in 1..Len(s)}

SeqsUpTo(S, n) == UNION {[1..k -> S] : k \in 0..n}

Abs(x) == IF x < 0 THEN -x ELSE x

Min(a, b) == IF a <= b THEN a ELSE b

Max(a, b) == IF a >= b THEN a ELSE b

-----------------------------------------------------------------------------
(* JavaScript values                                                       *)

Str(x) == [t |-> "str", s |-> x]
Num(x) == [t |-> "num", s |-> x]
Null == [t |-> "null", s |-> <<>>]
Undef == [t |-> "undef", s |-> <<>>]

NullText == <<"n", "u", "l", "l">>

\* v === undefined || v === null
IsNullish(v) == v.t \in {"null", "undef"}

\* v ?? null
OrNull(v) == IF IsNullish(v) THEN Null ELSE v

\* String(v), the conversion an object key goes through
ToStr(v) ==
    IF v.t = "null" THEN NullText
    ELSE IF v.t = "undef" THEN <<"u", "n", "d", "e", "f", "i", "n", "e", "d">>
    ELSE v.s

\* !v  (the falsy scalars: undefined, null, '', 0)
IsFalsy(v) ==
    \/ IsNullish(v)
    \/ (v.t = "str" /\ v.s = <<>>)
    \/ (v.t = "num" /\ v.s = <<"0">>)

-----------------------------------------------------------------------------
(* Items.  An item is [name, props, image, images]: props maps every       *)
(* property name of PropNames to a scalar (Undef = the item has no such    *)
(* key), image is Undef or a string, images is the array of image          *)
(* references (<<>> when the key is absent or the array is empty).         *)

\* property keys in the order Object.keys lists them
PropNames == <<"p1", "p2", "p3", "p4">>

PropSet == Range(PropNames)

hasImages(item) == Len(item.images) > 0 \/ item.image.t = "str"

\* the values pickRandomImage(item) can return
pickRandomImage(item) ==
    IF Len(item.images) > 0 THEN {Str(item.images[i]) : i \in 1..Len(item.images)}
    ELSE IF ~IsFalsy(item.image) THEN {item.image}
    ELSE {Null}

-----------------------------------------------------------------------------
(* UNIQUE PROPERTY COMBINATIONS                                            *)

\* go(start, path) of combinations(arr, k): the subsequences of arr of
\* length k that start at index >= start (1-based), in index-lexicographic
\* order.
RECURSIVE CombFrom(_, _, _)
CombFrom(arr, k, start) ==
    IF k = 0 THEN << <<>> >>
    ELSE IF start > Len(arr) THEN <<>>
    ELSE [j \in 1..Len(CombFrom(arr, k - 1, start + 1)) |->
              <<arr[start]>> \o CombFrom(arr, k - 1, start + 1)[j]]
         \o CombFrom(arr, k, start + 1)

combinations(arr, k) == CombFrom(arr, k, 1)

\* the value tuple of item on combo
TupleOf(item, combo) == [i \in 1..Len(combo) |-> item.props[combo[i]]]

\* the item has a null or missing value on some property of combo
ComboSkipped(item, combo) == \E i \in 1..Len(combo) : IsNullish(item.props[combo[i]])

\* the members of items that match tuple on combo: (it[combo[i]] ?? null) === tuple[i]
ComboMatches(items, combo, tuple) ==
    {n \in 1..Len(items) :
        \A i \in 1..Len(combo) : OrNull(items[n].props[combo[i]]) = tuple[i]}

NoCombo == [properties |-> <<>>, valueTuple |-> <<>>]

\* for (const combo of combos), from position idx on
RECURSIVE FirstUniqueCombo(_, _, _, _)
FirstUniqueCombo(item, items, combos, idx) ==
    IF idx > Len(combos) THEN NoCombo
    ELSE IF ComboSkipped(item, combos[idx]) THEN FirstUniqueCombo(item, items, combos, idx + 1)
    ELSE IF Cardinality(ComboMatches(items, combos[idx], TupleOf(item, combos[idx]))) = 1
         THEN [properties |-> combos[idx], valueTuple |-> TupleOf(item, combos[idx])]
    ELSE FirstUniqueCombo(item, items, combos, idx + 1)

\* for (let k = startK; k <= maxK; k++), from size k on
RECURSIVE ComboSearch(_, _, _, _, _)
ComboSearch(item, items, allProps, k, maxK) ==
    IF k > maxK THEN NoCombo
    ELSE IF FirstUniqueCombo(item, items, combinations(allProps, k), 1) # NoCombo
         THEN FirstUniqueCombo(item, items, combinations(allProps, k), 1)
    ELSE ComboSearch(item, items, allProps, k + 1, maxK)

\* the bug of starting the search at single properties
findUniquePropertyCombo_FromOne(item, items, allProps, maxCombo, startK) ==
    ComboSearch(item, items, allProps, 1, Min(maxCombo, Len(allProps)))

\* the bug of starting the search at the largest size
findUniquePropertyCombo_FromMax(item, items, allProps, maxCombo, startK) ==
    ComboSearch(item, items, allProps, Min(maxCombo, Len(allProps)),
                Min(maxCombo, Len(allProps)))

findUniquePropertyCombo(item, items, allProps, maxCombo, startK) ==
    ComboSearch(item, items, allProps, startK, Min(maxCombo, Len(allProps)))

-----------------------------------------------------------------------------
(* GENERIC UTILITIES                                                       *)

RECURSIVE Flatten(_)
Flatten(ss) == IF ss = <<>> THEN <<>> ELSE Head(ss) \o Flatten(Tail(ss))

Swap(a, i, j) == [a EXCEPT ![i] = a[j], ![j] = a[i]]

\* the loop of shuffleArray from 0-based index i down to 1; draws[i] is the
\* value of Math.floor(Math.random() * (i + 1)) at that step.
RECURSIVE FisherYates(_, _, _)
FisherYates(a, i, draws) ==
    IF i < 1 THEN a
    ELSE FisherYates(Swap(a, i + 1, draws[i] + 1), i - 1, draws)

shuffleArray(arr, draws) == FisherYates(arr, Len(arr) - 1, draws)

\* The draws a shuffle of n elements can see.  Up to FullShuffleLen every
\* combination of draws; beyond, the draws of RandomStreams streams in which
\* Math.random() keeps returning k / RandomStreams.
ShuffleDraws(n) ==
    IF n <= FullShuffleLen
    THEN {d \in [1..(n - 1) -> 0..(n - 1)] : \A i \in 1..(n - 1) : d[i] <= i}
    ELSE {[i \in 1..(n - 1) |-> (k * (i + 1)) \div RandomStreams] : k \in 0..(RandomStreams - 1)}

\* every result shuffleArray(arr) can return
Shuffles(arr) == {shuffleArray(arr, d) : d \in ShuffleDraws(Len(arr))}

-----------------------------------------------------------------------------
(* QUESTION POOL GENERATION                                                *)

\* Object.keys(rawData) without '_meta', in key order
CategoryOrder == <<"c1", "c2">>

Categories == Range(CategoryOrder)

\* A question.  Fields a question type does not set hold: "" (property),
\* <<>> (properties, valueTuple), Undef (value, correct, name, image).
\* image stands for correctImage of 'name->image' and image of 'image->name';
\* sourceItem is the index of the source item in its category.
Question(cat, type, property, value, correct, name, properties, valueTuple, image, src) ==
    [category |-> cat, type |-> type, property |-> property, value |-> value,
     correct |-> correct, name |-> name, properties |-> properties,
     valueTuple |-> valueTuple, image |-> image, sourceItem |-> src]

\* Object.keys(sample) without name, image, images
AllPropsOf(items) == SelectSeq(PropNames, LAMBDA p : items[1].props[p] # Undef)

\* the key under which propValueMap[p] files an item: String(it[p] ?? null)
KeyOf(item, p) == ToStr(OrNull(item.props[p]))

\* propValueMap[p][key]: the items filed under key, by index
Holders(items, p, key) == {n \in 1..Len(items) : KeyOf(items[n], p) = key}

\* integer-like keys, which Object.keys lists first, in ascending order
IndexKeys == << <<"0">>, <<"1">>, <<"2">> >>

\* Object.keys(propValueMap[p]): integer-like keys ascending, then the other
\* keys in order of insertion
KeysOf(items, p) ==
    LET ins == [n \in 1..Len(items) |-> KeyOf(items[n], p)]
        firstAt(n) == \A m \in 1..(n - 1) : ins[m] # ins[n]
    IN  SelectSeq(IndexKeys, LAMBDA k : k \in Range(ins))
        \o Flatten([n \in 1..Len(items) |->
               IF firstAt(n) /\ ins[n] \notin Range(IndexKeys) THEN <<ins[n]>> ELSE <<>>])

\* // property -> name
PropertyToName(cat, items, allProps) ==
    Flatten([i \in 1..Len(allProps) |->
        LET p == allProps[i]
            keys == KeysOf(items, p)
        IN  Flatten([j \in 1..Len(keys) |->
                LET arr == Holders(items, p, keys[j])
                    src == CHOOSE n \in arr : TRUE
                IN  IF keys[j] = NullText THEN <<>>
                    ELSE IF Cardinality(arr) = 1
                    THEN <<Question(cat, "property->name", p, Str(keys[j]),
                                    Str(items[src].name), Undef, <<>>, <<>>, Undef, src)>>
                    ELSE <<>>])])

\* // name -> property
NameToProperty(cat, items, allProps) ==
    Flatten([n \in 1..Len(items) |->
        Flatten([i \in 1..Len(allProps) |->
            LET p == allProps[i]
                val == items[n].props[p]
            IN  IF IsNullish(val) THEN <<>>
                ELSE IF Cardinality(Holders(items, p, ToStr(val))) = 1
                THEN <<Question(cat, "name->property", p, Undef, val,
                                Str(items[n].name), <<>>, <<>>, Undef, n)>>
                ELSE <<>>])])

\* // property combinations
PropertiesToName(cat, items, allProps) ==
    Flatten([n \in 1..Len(items) |->
        LET combo == findUniquePropertyCombo(items[n], items, allProps, 3, 2)
        IN  IF combo # NoCombo
            THEN <<Question(cat, "properties->name", "", Undef, Str(items[n].name),
                            Undef, combo.properties, combo.valueTuple, Undef, n)>>
            ELSE <<>>])

\* items.filter(it => hasImages(it)), by index
ItemsWithImages(items) ==
    SelectSeq([n \in 1..Len(items) |-> n], LAMBDA n : hasImages(items[n]))

\* the bug of asking image questions as soon as one item is imaged
ImageQuestions_AtLeastOne(cat, items, type, picks) ==
    LET with == ItemsWithImages(items)
    IN  IF Len(with) >= 1
        THEN [i \in 1..Len(with) |->
                 Question(cat, type, "", Undef, Undef, Str(items[with[i]].name),
                          <<>>, <<>>, picks[i], with[i])]
        ELSE <<>>

\* one image question per imaged item, when at least 2 items are imaged;
\* picks[i] is what pickRandomImage returned for the i-th imaged item
ImageQuestions(cat, items, type, picks) ==
    LET with == ItemsWithImages(items)
    IN  IF Len(with) >= 2
        THEN [i \in 1..Len(with) |->
                 Question(cat, type, "", Undef, Undef, Str(items[with[i]].name),
                          <<>>, <<>>, picks[i], with[i])]
        ELSE <<>>

\* the sequences of values pickRandomImage can return for the items listed
\* in with, from position i on
RECURSIVE ImagePicks(_, _, _)
ImagePicks(items, with, i) ==
    IF i > Len(with) THEN {<<>>}
    ELSE {<<x>> \o rest : x \in pickRandomImage(items[with[i]]),
                          rest \in ImagePicks(items, with, i + 1)}

\* the questions one pass of the category loop pushes, for every outcome of
\* pickRandomImage
CategoryQuestions(cat, items) ==
    IF Len(items) = 0 THEN {<<>>}
    ELSE LET allProps == AllPropsOf(items)
             facts == PropertyToName(cat, items, allProps)
                      \o NameToProperty(cat, items, allProps)
                      \o PropertiesToName(cat, items, allProps)
             picks == ImagePicks(items, ItemsWithImages(items), 1)
         IN  {facts \o ImageQuestions(cat, items, "name->image", pn)
                    \o ImageQuestions(cat, items, "image->name", pi) :
                  pn \in picks, pi \in picks}

\* for (const cat of Object.keys(rawData)), from position i on
RECURSIVE GeneratedFrom(_, _, _)
GeneratedFrom(data, selected, i) ==
    IF i > Len(CategoryOrder) THEN {<<>>}
    ELSE IF CategoryOrder[i] \notin selected THEN GeneratedFrom(data, selected, i + 1)
    ELSE {qs \o rest : qs \in CategoryQuestions(CategoryOrder[i], data[CategoryOrder[i]]),
                       rest \in GeneratedFrom(data, selected, i + 1)}

\* the two fields of the signature dedupeQuestions stringifies after type and
\* category:  q.property || q.properties || q.name || ''  and
\* q.value || q.valueTuple || q.correct || ''
SignatureKey(q) ==
    IF q.property # "" THEN [kind |-> "property", property |-> q.property,
                             list |-> <<>>, scalar |-> Undef]
    ELSE IF q.properties # <<>> THEN [kind |-> "properties", property |-> "",
                                     list |-> q.properties, scalar |-> Undef]
    ELSE IF ~IsFalsy(q.name) THEN [kind |-> "name", property |-> "",
                                  list |-> <<>>, scalar |-> q.name]
    ELSE [kind |-> "empty", property |-> "", list |-> <<>>, scalar |-> Str(<<>>)]

SignatureValue(q) ==
    IF ~IsFalsy(q.value) THEN [list |-> <<>>, scalar |-> q.value]
    ELSE IF q.valueTuple # <<>> THEN [list |-> q.valueTuple, scalar |-> Undef]
    ELSE IF ~IsFalsy(q.correct) THEN [list |-> <<>>, scalar |-> q.correct]
    ELSE [list |-> <<>>, scalar |-> Str(<<>>)]

Signature(q) ==
    [type |-> q.type, category |-> q.category, key |-> SignatureKey(q),
     value |-> SignatureValue(q)]

\* arr.filter(q => first occurrence of its signature)
dedupeQuestions(arr) ==
    Flatten([i \in 1..Len(arr) |->
        IF \E j \in 1..(i - 1) : Signature(arr[j]) = Signature(arr[i])
        THEN <<>> ELSE <<arr[i]>>])

\* every value buildQuestionPool() can leave in questionPool
buildQuestionPool(data, selected) ==
    UNION {Shuffles(dedupeQuestions(generated)) :
               generated \in GeneratedFrom(data, selected, 1)}

-----------------------------------------------------------------------------
(* CHOICE GENERATION HELPERS                                               *)
(* Each operator is the set of lists the function can return, over the     *)
(* outcomes of its shuffles.  Names and property values are JavaScript     *)
(* scalars.                                                                *)

\* arr.slice(0, n)
Slice(arr, n) == SubSeq(arr, 1, Min(n, Len(arr)))

\* the names of a category's items, in item order
NamesOf(items) == [n \in 1..Len(items) |-> Str(items[n].name)]

\* the bug of keeping count distractors instead of count - 1
PicksWithCorrect_SliceCount(others, correct, count) ==
    UNION {Shuffles(Append(Slice(o, count), correct)) : o \in Shuffles(others)}

\* const picks = shuffleArray(others).slice(0, count - 1);
\* picks.push(correct); return shuffleArray(picks);
PicksWithCorrect(others, correct, count) ==
    UNION {Shuffles(Append(Slice(o, count - 1), correct)) : o \in Shuffles(others)}

pickNameChoices(data, category, correctName, count) ==
    PicksWithCorrect(SelectSeq(NamesOf(data[category]), LAMBDA n : n # correctName),
                     correctName, count)

\* the bug of never restricting the candidates to the imaged items
pickNameChoicesFromImageItems_AllNames(data, category, correctName, count) ==
    PicksWithCorrect(SelectSeq(NamesOf(data[category]), LAMBDA n : n # correctName),
                     correctName, count)

pickNameChoicesFromImageItems(data, category, correctName, count) ==
    LET items == data[category]
        withImages == [i \in 1..Len(ItemsWithImages(items)) |->
                          Str(items[ItemsWithImages(items)[i]].name)]
        pool == IF Len(withImages) >= count - 1 THEN withImages ELSE NamesOf(items)
    IN  PicksWithCorrect(SelectSeq(pool, LAMBDA n : n # correctName), correctName, count)

\* Array.from(new Set(values)): first occurrences, in order
Distinct(values) ==
    Flatten([i \in 1..Len(values) |->
        IF \E j \in 1..(i - 1) : values[j] = values[i] THEN <<>> ELSE <<values[i]>>])

\* the distinct non-null values of a property in a category
PropertyValues(items, property) ==
    Distinct(SelectSeq([n \in 1..Len(items) |-> items[n].props[property]],
                       LAMBDA v : ~IsNullish(v)))

pickPropertyChoices(data, category, property, correctValue, count) ==
    PicksWithCorrect(SelectSeq(PropertyValues(data[category], property),
                               LAMBDA v : v # correctValue),
                     correctValue, count)

\* the bug of leaving the sample as drawn
EnsureCorrectChoice_Never(choices, q, correctImage) == choices

\* renderNameToImage: "Ensure the correct image/name pair is present"
EnsureCorrectChoice(choices, q, correctImage) ==
    IF \E i \in 1..Len(choices) : choices[i].label = q.name THEN choices
    ELSE IF Len(choices) < MAX_OPTIONS
         THEN Append(choices, [label |-> q.name, image |-> correctImage])
    ELSE [choices EXCEPT ![1] = [label |-> q.name, image |-> correctImage]]

\* the option lists renderNameToImage(q) can put in the form
renderNameToImage(data, q) ==
    LET items == data[q.category]
        correctImages == {IF IsFalsy(x) THEN q.image ELSE x :
                              x \in pickRandomImage(items[q.sourceItem])}
        rendered(shuffled) ==
            UNION {Shuffles(EnsureCorrectChoice(
                       [i \in 1..Len(picks) |->
                           [label |-> Str(items[Slice(shuffled, MAX_OPTIONS)[i]].name),
                            image |-> picks[i]]],
                       q, correctImage)) :
                   picks \in ImagePicks(items, Slice(shuffled, MAX_OPTIONS), 1),
                   correctImage \in correctImages}
    IN  UNION {rendered(shuffled) : shuffled \in Shuffles(ItemsWithImages(items))}

-----------------------------------------------------------------------------
(* FUZZY MATCH                                                             *)

\* One-character strings the matcher is exercised on: two letters, an upper
\* case letter, a precomposed letter carrying a diacritic ("a'") and a blank.
\* "'" alone stands for the combining mark NFD splits off.
Alphabet == {"a", "b", "A", "a'", " "}

\* String.prototype.normalize('NFD'): a precomposed letter becomes the base
\* letter followed by its combining mark.
RECURSIVE NFD(_)
NFD(s) ==
    IF s = <<>> THEN <<>>
    ELSE (IF Head(s) = "a'" THEN <<"a", "'">> ELSE <<Head(s)>>) \o NFD(Tail(s))

\* .replace(/[U+0300-U+036F]/g, ''): drop every combining mark.
StripMarks(s) == SelectSeq(s, LAMBDA c : c # "'")

\* .trim(): drop leading and trailing blanks.
RECURSIVE TrimLeft(_)
TrimLeft(s) ==
    IF s # <<>> /\ Head(s) = " " THEN TrimLeft(Tail(s)) ELSE s

RECURSIVE TrimRight(_)
TrimRight(s) ==
    IF s # <<>> /\ s[Len(s)] = " " THEN TrimRight(SubSeq(s, 1, Len(s) - 1)) ELSE s

Trim(s) == TrimRight(TrimLeft(s))

\* .toLowerCase()
ToLowerCase(s) == [i \in 1..Len(s) |-> IF s[i] = "A" THEN "a" ELSE s[i]]

normalizeForCompare(s) == ToLowerCase(Trim(StripMarks(NFD(s))))

\* equal lengths: at most one position differs
DiffCount(s, t) == Cardinality({i \in 1..Len(s) : s[i] # t[i]})

\* the while loop of isEditDistanceAtMostOne for Len(t) = Len(s) + 1;
\* i, j are the 0-based cursors of the source.
RECURSIVE SkipScan(_, _, _, _, _)
SkipScan(s, t, i, j, skipped) ==
    IF ~(i < Len(s) /\ j < Len(t)) THEN TRUE
    ELSE IF s[i + 1] = t[j + 1] THEN SkipScan(s, t, i + 1, j + 1, skipped)
    ELSE IF skipped THEN FALSE
    ELSE SkipScan(s, t, i, j + 1, TRUE)

\* the bug of scanning without first making s the shorter string
isEditDistanceAtMostOne_NoSwap(s, t) ==
    IF Abs(Len(s) - Len(t)) > 1 THEN FALSE
    ELSE IF Len(s) = Len(t) THEN DiffCount(s, t) <= 1
    ELSE SkipScan(s, t, 0, 0, FALSE)

isEditDistanceAtMostOne(s, t) ==
    IF Abs(Len(s) - Len(t)) > 1 THEN FALSE
    ELSE IF Len(s) = Len(t) THEN DiffCount(s, t) <= 1
    ELSE IF Len(s) > Len(t) THEN SkipScan(t, s, 0, 0, FALSE)
    ELSE SkipScan(s, t, 0, 0, FALSE)

compareAnswers(a, b) ==
    LET x == normalizeForCompare(a)
        y == normalizeForCompare(b)
    IN  IF x = y THEN "exact"
        ELSE IF isEditDistanceAtMostOne(x, y) THEN "fuzzy"
        ELSE "no"

-----------------------------------------------------------------------------
(* JAVASCRIPT NUMBERS                                                      *)
(* A number that may be NaN is a record [nan, n]; text is decimal digits.  *)

Numeric(n) == [nan |-> FALSE, n |-> n]

NaN == [nan |-> TRUE, n |-> 0]

Digits == <<"0", "1", "2", "3", "4", "5", "6", "7", "8", "9">>

IsDigit(c) == \E i \in 1..Len(Digits) : Digits[i] = c

DigitValue(c) == (CHOOSE i \in 1..Len(Digits) : Digits[i] = c) - 1

RECURSIVE DigitsValue(_)
DigitsValue(s) ==
    IF s = <<>> THEN 0
    ELSE 10 * DigitsValue(SubSeq(s, 1, Len(s) - 1)) + DigitValue(s[Len(s)])

\* the longest prefix of s made of digits
DigitPrefix(s) ==
    LET k == CHOOSE i \in 0..Len(s) :
                 /\ \A j \in 1..i : IsDigit(s[j])
                 /\ (i < Len(s) => ~IsDigit(s[i + 1]))
    IN  SubSeq(s, 1, k)

\* parseInt(s, 10) of a text without leading blanks
parseInt(s) ==
    LET negative == s # <<>> /\ s[1] = "-"
        digits == DigitPrefix(IF negative THEN Tail(s) ELSE s)
    IN  IF digits = <<>> THEN NaN
        ELSE Numeric(IF negative THEN 0 - DigitsValue(digits) ELSE DigitsValue(digits))

\* Number(s) of a text: '' is 0, an optionally signed run of digits is its
\* value, any other text of the model is NaN
ToNumber(s) ==
    LET negative == s # <<>> /\ s[1] = "-"
        rest == IF negative THEN Tail(s) ELSE s
    IN  IF s = <<>> THEN Numeric(0)
        ELSE IF rest # <<>> /\ DigitPrefix(rest) = rest
             THEN Numeric(IF negative THEN 0 - DigitsValue(rest) ELSE DigitsValue(rest))
        ELSE NaN

\* String(n) of a natural number
RECURSIVE Decimal(_)
Decimal(n) ==
    IF n < 10 THEN <<Digits[n + 1]>>
    ELSE Decimal(n \div 10) \o <<Digits[(n % 10) + 1]>>

\* a > b where b may be NaN
Exceeds(a, b) == ~b.nan /\ a > b.n

\* Math.max(1, n)
AtLeastOne(n) == IF n.nan THEN NaN ELSE Numeric(Max(1, n.n))

\* arr.slice(0, n); a NaN end is taken as 0
SliceTo(arr, n) == IF n.nan THEN <<>> ELSE Slice(arr, Max(0, n.n))

\* let bestStreak = Number(localStorage.getItem('quiz_highscore') || 0)
StoredBestStreak(stored) == IF IsFalsy(stored) THEN Numeric(0) ELSE ToNumber(stored.s)

-----------------------------------------------------------------------------
(* TYPED-ENTRY PROBABILITIES                                               *)
(* A fraction 0..1 is kept in hundredths, a percentage as itself, so that  *)
(* fraction f and percentage 100 f are the same integer.  NoNumber stands  *)
(* for undefined / an absent key.                                          *)

TYPED_ANSWER_PROB == 25

NoNumber == 0 - 1

NoMeta == [present |-> FALSE, typed |-> FALSE, typedProbability |-> NoNumber]

\* { typed: ..., typedProbability: ... }, the probability in hundredths
Meta(typed, typedProbability) ==
    [present |-> TRUE, typed |-> typed, typedProbability |-> typedProbability]

\* Boolean(meta && meta.typed)
EnabledForTyped(meta) == meta.present /\ meta.typed

pctToFraction(pct) == Max(0, Min(100, pct))

\* metaVal in hundredths; Math.round(n) of n = metaVal / 100 when n > 1
normalizeMetaProbToPct(metaVal, fallbackFraction) ==
    IF metaVal = NoNumber THEN fallbackFraction
    ELSE IF metaVal > 100 THEN Max(0, Min(100, (metaVal + 50) \div 100))
    ELSE Max(0, Min(100, metaVal))

\* buildCategoryCheckboxes: the percentage first shown for a category
InitialPct(meta) == normalizeMetaProbToPct(meta.typedProbability, TYPED_ANSWER_PROB)

\* the 'input' listener of input.typed-prob: Number('') is 0
EditedPct(v) == Max(0, Min(100, IF v = NoNumber THEN 0 ELSE v))

\* startQuiz: the probability a selected category gets
StartProb(cat, meta, probs, inputs) ==
    IF EnabledForTyped(meta[cat])
    THEN IF inputs[cat] # NoNumber THEN pctToFraction(inputs[cat])
         ELSE IF probs[cat] = NoNumber
              THEN IF meta[cat].typedProbability # NoNumber
                   THEN IF meta[cat].typedProbability > 100
                        THEN pctToFraction(meta[cat].typedProbability \div 100)
                        ELSE meta[cat].typedProbability
                   ELSE TYPED_ANSWER_PROB
         ELSE probs[cat]
    ELSE 0

\* shouldUseTypedEntry without the test of categoryMeta
shouldUseTypedEntry_IgnoreMeta(meta, probs, category) ==
    LET p == probs[category]
        prob == IF p # NoNumber THEN p ELSE TYPED_ANSWER_PROB
    IN  {b \in BOOLEAN : (b => prob > 0) /\ (~b => prob < 100)}

\* the values shouldUseTypedEntry(category) can return: Math.random() is in
\* [0, 1), so it can be below prob iff prob > 0 and not below iff prob < 1
shouldUseTypedEntry(meta, probs, category) ==
    IF ~EnabledForTyped(meta[category]) THEN {FALSE}
    ELSE LET p == probs[category]
             prob == IF p # NoNumber THEN p ELSE TYPED_ANSWER_PROB
         IN  {b \in BOOLEAN : (b => prob > 0) /\ (~b => prob < 100)}

-----------------------------------------------------------------------------
(* QUESTION RENDERING                                                      *)
(* form is [kind, options, answered, value]: kind "empty", "choice" (radio *)
(* inputs, one per option), "typed" (a text input) or "finished" (only the *)
(* End Session button; the disabled inputs left from the last question are *)
(* not kept); answered is the submit button's dataset.answered; value is   *)
(* the value read from the form when the answer was accepted.              *)

NoForm == [kind |-> "empty", options |-> <<>>, answered |-> FALSE, value |-> Undef]

ChoiceForm(options) == [NoForm EXCEPT !.kind = "choice", !.options = options]

TypedForm == [NoForm EXCEPT !.kind = "typed"]

FinishedForm == [NoForm EXCEPT !.kind = "finished"]

\* the answer a question's submit callback compares with
CorrectOf(q) == IF q.type \in {"name->image", "image->name"} THEN q.name ELSE q.correct

\* value="${escapeAttr(c)}" read back as selected.value
OptionValue(c) == Str(ToStr(c))

\* buildOptionsAndHook(choices, ...) over the outcomes of choices
buildOptionsAndHook(choiceLists) ==
    UNION {{ChoiceForm(shuffled) : shuffled \in Shuffles(choices)} :
               choices \in choiceLists}

\* renderTypedNameQuestion if shouldUseTypedEntry, else the choice lists
TypedOrChoices(meta, probs, q, choiceLists) ==
    {TypedForm : b \in shouldUseTypedEntry(meta, probs, q.category) \cap {TRUE}}
    \cup UNION {buildOptionsAndHook(choiceLists) :
                   b \in shouldUseTypedEntry(meta, probs, q.category) \cap {FALSE}}

\* the forms renderQuestion(q, ...) can build
renderQuestion(data, meta, probs, q) ==
    CASE q.type \in {"property->name", "properties->name"} ->
             TypedOrChoices(meta, probs, q,
                 pickNameChoices(data, q.category, q.correct, MAX_OPTIONS))
      [] q.type = "name->property" ->
             buildOptionsAndHook(
                 pickPropertyChoices(data, q.category, q.property, q.correct,
                                     MAX_OPTIONS))
      [] q.type = "name->image" ->
             {ChoiceForm([i \in 1..Len(final) |-> final[i].label]) :
                  final \in renderNameToImage(data, q)}
      [] q.type = "image->name" ->
             TypedOrChoices(meta, probs, q,
                 pickNameChoicesFromImageItems(data, q.category, q.name, MAX_OPTIONS))
      [] OTHER -> {NoForm}

-----------------------------------------------------------------------------
(* FEEDBACK, SCORING, NAVIGATION                                           *)
(* feedback is [kind, msg, note, streak, score, total, best]: kind "none", *)
(* "toast" (msg), "correct" (streak, note: the spelling shown, Undef if    *)
(* none), "wrong" or "finished" (score, total, best).                      *)

NoFeedback ==
    [kind |-> "none", msg |-> "", note |-> Undef, streak |-> 0, score |-> 0,
     total |-> 0, best |-> Numeric(0)]

showToast(msg) == [NoFeedback EXCEPT !.kind = "toast", !.msg = msg]

\* the bug of leaving the streak as it was
handleCorrect_KeepStreak(note) ==
    /\ sessionScore' = sessionScore + 1
    /\ UNCHANGED <<sessionStreak, bestStreak, highscore>>
    /\ feedback' = [NoFeedback EXCEPT !.kind = "correct", !.streak = sessionStreak,
                                      !.note = IF IsFalsy(note) THEN Undef ELSE note]

\* the bug of never showing the note
handleCorrect_NoNote(note) ==
    /\ sessionScore' = sessionScore + 1
    /\ sessionStreak' = sessionStreak + 1
    /\ IF Exceeds(sessionStreak + 1, bestStreak)
       THEN /\ bestStreak' = Numeric(sessionStreak + 1)
            /\ highscore' = Str(Decimal(sessionStreak + 1))
       ELSE UNCHANGED <<bestStreak, highscore>>
    /\ feedback' = [NoFeedback EXCEPT !.kind = "correct", !.streak = sessionStreak + 1]

handleCorrect(note) ==
    /\ sessionScore' = sessionScore + 1
    /\ sessionStreak' = sessionStreak + 1
    /\ IF Exceeds(sessionStreak + 1, bestStreak)
       THEN /\ bestStreak' = Numeric(sessionStreak + 1)
            /\ highscore' = Str(Decimal(sessionStreak + 1))
       ELSE UNCHANGED <<bestStreak, highscore>>
    /\ feedback' = [NoFeedback EXCEPT !.kind = "correct", !.streak = sessionStreak + 1,
                                      !.note = IF IsFalsy(note) THEN Undef ELSE note]

\* handleWrong that also forgets the best streak
handleWrong_ResetBest ==
    /\ sessionStreak' = 0
    /\ bestStreak' = Numeric(0)
    /\ UNCHANGED <<sessionScore, highscore>>
    /\ feedback' = [NoFeedback EXCEPT !.kind = "wrong"]

handleWrong ==
    /\ sessionStreak' = 0
    /\ UNCHANGED <<sessionScore, bestStreak, highscore>>
    /\ feedback' = [NoFeedback EXCEPT !.kind = "wrong"]

\* finishSession that leaves the form, its submit button included
finishSession_KeepForm(score, total, best) ==
    /\ feedback' = [NoFeedback EXCEPT !.kind = "finished", !.score = score,
                                      !.total = total, !.best = best]
    /\ form' = form

finishSession(score, total, best) ==
    /\ feedback' = [NoFeedback EXCEPT !.kind = "finished", !.score = score,
                                      !.total = total, !.best = best]
    /\ form' = FinishedForm

\* nextQuestion without currentQuestionIndex++ once a question is shown
nextQuestion_Stay(index, questions, score, best, probs) ==
    /\ nextBtnDisabled' = TRUE
    /\ currentQuestionIndex' = Max(index, 0)
    /\ IF Max(index, 0) >= Len(questions)
       THEN finishSession(score, Len(questions), best)
       ELSE /\ feedback' = NoFeedback
            /\ form' \in renderQuestion(rawData, categoryMeta, probs,
                                        questions[Max(index, 0) + 1])

\* nextQuestion that leaves #nextBtn as it is
nextQuestion_NextLeftEnabled(index, questions, score, best, probs) ==
    /\ UNCHANGED nextBtnDisabled
    /\ currentQuestionIndex' = index + 1
    /\ IF index + 1 >= Len(questions)
       THEN finishSession(score, Len(questions), best)
       ELSE /\ feedback' = NoFeedback
            /\ form' \in renderQuestion(rawData, categoryMeta, probs,
                                        questions[index + 2])

\* nextQuestion() entered with the given index, session questions, score,
\* best streak and probabilities
nextQuestion(index, questions, score, best, probs) ==
    /\ nextBtnDisabled' = TRUE
    /\ currentQuestionIndex' = index + 1
    /\ IF index + 1 >= Len(questions)
       THEN finishSession(score, Len(questions), best)
       ELSE /\ feedback' = NoFeedback
            /\ form' \in renderQuestion(rawData, categoryMeta, probs,
                                        questions[index + 2])

\* the session state the script's top level leaves, init() being at the
\* given point
SessionIdle(fetchState) ==
    /\ currentSessionQuestions = <<>>
    /\ currentQuestionIndex = 0 - 1
    /\ sessionScore = 0
    /\ sessionStreak = 0
    /\ highscore = Null
    /\ bestStreak = StoredBestStreak(Null)
    /\ typedProbByCategory = [c \in Categories |-> NoNumber]
    /\ typedProbInput = [c \in Categories |-> NoNumber]
    /\ categoryMeta = [c \in Categories |-> NoMeta]
    /\ fetched = fetchState
    /\ setupHidden = FALSE
    /\ quizAreaHidden = TRUE
    /\ form = NoForm
    /\ nextBtnDisabled = FALSE
    /\ feedback = NoFeedback

-----------------------------------------------------------------------------
(* The program's variables as the script's top level leaves them, for the *)
(* specifications that exercise one function on its arguments alone.      *)

ProgramIdle ==
    /\ rawData = [c \in Categories |-> <<>>]
    /\ selectedCategories = {}
    /\ questionPool = <<>>
    /\ SessionIdle("pending")

-----------------------------------------------------------------------------
(* Specification SpecFuzzy: compareAnswers applied to every pair of        *)
(* strings over Alphabet of length at most MaxLen.                         *)

Strings == SeqsUpTo(Alphabet, MaxLen)

InitFuzzy ==
    /\ ProgramIdle
    /\ input \in [a : Strings, b : Strings]
    /\ output = NotRun

CompareAnswers ==
    /\ ~output.done
    /\ output' = Returned(compareAnswers(input.a, input.b))
    /\ UNCHANGED <<input, progVars>>

NextFuzzy == CompareAnswers

SpecFuzzy == InitFuzzy /\ [][NextFuzzy]_vars

\* Levenshtein edit distance (unit-cost insertion, deletion, substitution),
\* the reference the matcher is compared against.
RECURSIVE Levenshtein(_, _)
Levenshtein(s, t) ==
    IF s = <<>> THEN Len(t)
    ELSE IF t = <<>> THEN Len(s)
    ELSE Min(Min(Levenshtein(Tail(s), t) + 1, Levenshtein(s, Tail(t)) + 1),
             Levenshtein(Tail(s), Tail(t)) + (IF Head(s) = Head(t) THEN 0 ELSE 1))

\* C8: compareAnswers(a, b) is 'exact' iff the normalized strings are
\* identical, 'fuzzy' iff their Levenshtein distance is exactly 1, and
\* no-match iff the distance is 2 or more.
C8_CompareIsLevenshtein ==
    output.done =>
        LET d == Levenshtein(normalizeForCompare(input.a), normalizeForCompare(input.b))
        IN  /\ (output.r = "exact") <=> (d = 0)
            /\ (output.r = "fuzzy") <=> (d = 1)
            /\ (output.r = "no") <=> (d >= 2)

\* C8 witness: a transposition of two adjacent different characters has been
\* compared and reported as no-match.
C8_Witness ==
    /\ input.a = <<"a", "b">>
    /\ input.b = <<"b", "A">>
    /\ output.done
    /\ output.r = "no"

-----------------------------------------------------------------------------
(* Specification SpecCombo: findUniquePropertyCombo(item, items, allProps, *)
(* 3, 2) as buildQuestionPool calls it, on a searched item (items[1]) and  *)
(* up to MaxOthers further items.                                          *)

\* item names, all different
ItemNames == << <<"a">>, <<"b">>, <<"a", "b">>, <<"b", "a">>, <<"a", "a">>,
                <<"b", "b">>, <<"a", "a", "b">>, <<"a", "b", "b">> >>

NoImage(name, props) == [name |-> name, props |-> props, image |-> Undef, images |-> <<>>]

X == Str(<<"x">>)
Y == Str(<<"y">>)

\* bit i of code (i = 0 for the first property)
Bit(code, i) == (code \div (2 ^ i)) % 2

\* the searched item: x or nothing on each property of props, no other key
SearchedProps(props) ==
    {f \in [PropSet -> {X, Null, Undef}] :
        \A p \in PropSet : (f[p] = Undef) <=> (p \notin Range(props))}

\* another item, by code: bit i set = it agrees with x on props[i + 1], bit
\* clear = it does not (no value on the first property, y on the others)
OtherProps(props, code) ==
    [p \in PropSet |->
        IF p \notin Range(props) THEN Undef
        ELSE LET i == CHOOSE n \in 1..Len(props) : props[n] = p
             IN  IF Bit(code, i - 1) = 1 THEN X
                 ELSE IF i = 1 THEN Undef ELSE Y]

\* the other items in non-decreasing code order (their order does not
\* enter the search)
OtherCodes(props) ==
    {c \in SeqsUpTo(0..(2 ^ Len(props) - 1), MaxOthers) :
        \A i \in 1..(Len(c) - 1) : c[i] <= c[i + 1]}

ComboItems(props, sp, codes) ==
    <<NoImage(ItemNames[1], sp)>>
    \o [i \in 1..Len(codes) |-> NoImage(ItemNames[i + 1], OtherProps(props, codes[i]))]

\* every category of a searched item and up to MaxOthers others over props
ComboCategories(props) ==
    {ComboItems(props, sp, codes) : sp \in SearchedProps(props), codes \in OtherCodes(props)}

InitCombo ==
    /\ ProgramIdle
    /\ \E items \in ComboCategories(PropNames), n \in 0..Len(PropNames) :
           input = [items |-> items, allProps |-> SubSeq(PropNames, 1, n)]
    /\ output = NotRun

FindUniquePropertyCombo ==
    /\ ~output.done
    /\ output' = Returned(findUniquePropertyCombo(input.items[1], input.items, input.allProps, 3, 2))
    /\ UNCHANGED <<input, progVars>>

NextCombo == FindUniquePropertyCombo

SpecCombo == InitCombo /\ [][NextCombo]_vars

\* the strictly increasing index tuples of length k into a list of n
IndexTuples(n, k) ==
    {f \in [1..k -> 1..n] : \A i \in 1..(k - 1) : f[i] < f[i + 1]}

\* f comes before g in lexicographic order (equal lengths)
LexBefore(f, g) ==
    \E i \in 1..Len(f) : f[i] < g[i] /\ \A j \in 1..(i - 1) : f[j] = g[j]

PropsAt(allProps, f) == [i \in 1..Len(f) |-> allProps[f[i]]]

\* the item has a value on every property of the subset and is the only
\* member of items with that value tuple
Qualifies(item, items, combo) ==
    /\ \A i \in 1..Len(combo) : ~IsNullish(item.props[combo[i]])
    /\ Cardinality({n \in 1..Len(items) :
           \A i \in 1..Len(combo) : items[n].props[combo[i]] = item.props[combo[i]]}) = 1

QualifyingTuples(item, items, allProps, k) ==
    {f \in IndexTuples(Len(allProps), k) : Qualifies(item, items, PropsAt(allProps, f))}

\* C2: findUniquePropertyCombo(item, items, allProps, 3, 2) returns the first
\* qualifying property subset, size 2 before size 3 and index-lexicographic
\* within a size, with the item's value tuple; null when no subset of size 2
\* or 3 qualifies; never a subset of size 1 or above 3.
C2_FirstQualifyingCombo ==
    output.done =>
        LET item == input.items[1]
            Q(k) == QualifyingTuples(item, input.items, input.allProps, k)
            First(k) == CHOOSE f \in Q(k) : \A g \in Q(k) : g = f \/ LexBefore(f, g)
        IN  /\ Len(output.r.properties) \in {0, 2, 3}
            /\ (Q(2) # {}) =>
                   output.r.properties = PropsAt(input.allProps, First(2))
            /\ (Q(2) = {} /\ Q(3) # {}) =>
                   output.r.properties = PropsAt(input.allProps, First(3))
            /\ (Q(2) = {} /\ Q(3) = {}) => output.r = NoCombo
            /\ output.r.valueTuple = TupleOf(item, output.r.properties)

\* C2 witness: the search returned a size-3 subset that is not the first
\* size-3 subset of allProps (no pair qualified, and an earlier triple did not).
C2_Witness ==
    /\ output.done
    /\ Len(output.r.properties) = 3
    /\ output.r.properties # SubSeq(input.allProps, 1, 3)

-----------------------------------------------------------------------------
(* Specification SpecPool: buildQuestionPool() on generated datasets.      *)
(* Category c1 is drawn from three families (scalar edge cases on one      *)
(* property; combinations over three properties; image configurations),    *)
(* category c2 is fixed, and any non-empty selection may be checked.       *)

OnlyProps(f) == [p \in PropSet |-> IF p \in DOMAIN f THEN f[p] ELSE Undef]

\* scalars of one property: absent key, null, '', 'null', 0, '0', and a
\* string that is also the name of the first item
EdgeValues == {Undef, Null, Str(<<>>), Str(NullText), Num(<<"0">>), Str(<<"0">>),
               Str(ItemNames[1])}

EdgeCategories ==
    UNION {{[i \in 1..n |-> NoImage(ItemNames[i], OnlyProps([p1 |-> v[i]]))] :
                v \in [1..n -> EdgeValues]} : n \in 1..MaxItems}

\* image configurations: no image, one image, or (first item only) an
\* images array of two references
ImageConfigs(i) ==
    {[image |-> Undef, images |-> <<>>],
     [image |-> Str(<<"i", "1">>), images |-> <<>>],
     [image |-> Str(<<"i", "2">>), images |-> <<>>]}
    \cup (IF i = 1 THEN {[image |-> Undef, images |-> << <<"i", "1">>, <<"i", "2">> >>]}
          ELSE {})

WithImage(i, cfg) ==
    [name |-> ItemNames[i], props |-> OnlyProps([p1 |-> X]),
     image |-> cfg.image, images |-> cfg.images]

ImageCategoriesOf(n) ==
    {[i \in 1..n |-> WithImage(i, cfg[i])] :
        cfg \in {c \in [1..n -> UNION {ImageConfigs(i) : i \in 1..n}] :
                    \A i \in 1..n : c[i] \in ImageConfigs(i)}}

ImageCategories == UNION {ImageCategoriesOf(n) : n \in 0..MaxItems}

\* the fixed second category: two imaged items told apart by p1
SecondCategory ==
    <<[name |-> ItemNames[1], props |-> OnlyProps([p1 |-> X]),
       image |-> Str(<<"i", "1">>), images |-> <<>>],
      [name |-> ItemNames[2], props |-> OnlyProps([p1 |-> Y]),
       image |-> Str(<<"i", "1">>), images |-> <<>>]>>

PoolDatasets ==
    {[c \in Categories |-> IF c = "c1" THEN items ELSE SecondCategory] :
        items \in EdgeCategories \cup ImageCategories
                  \cup ComboCategories(SubSeq(PropNames, 1, 3))}

InitPool ==
    /\ rawData \in PoolDatasets
    /\ selectedCategories \in (SUBSET Categories) \ {{}}
    /\ questionPool = <<>>
    /\ SessionIdle("ok")
    /\ input = <<>>
    /\ output = NotRun

BuildQuestionPool ==
    /\ ~output.done
    /\ questionPool' \in buildQuestionPool(rawData, selectedCategories)
    /\ output' = Returned(<<>>)
    /\ UNCHANGED <<rawData, selectedCategories, sessionVars, input>>

NextPool == BuildQuestionPool

SpecPool == InitPool /\ [][NextPool]_vars

PoolQuestions == {questionPool[i] : i \in 1..Len(questionPool)}

\* the pool positions holding a question of the given type and category
PoolIndices(type, cat) ==
    {i \in 1..Len(questionPool) :
        questionPool[i].type = type /\ questionPool[i].category = cat}

\* the items of a category holding a non-null value whose String() is text
HoldersOfText(items, p, text) ==
    {n \in 1..Len(items) : ~IsNullish(items[n].props[p]) /\ ToStr(items[n].props[p]) = text}

\* the items of a category filed under text (null and missing values are
\* filed under 'null')
FiledUnder(items, p, text) ==
    {n \in 1..Len(items) : ToStr(OrNull(items[n].props[p])) = text}

\* C1 (as claimed): after buildQuestionPool every 'property->name' question
\* has a (property, value) pair held, by stringified value, by exactly one
\* item of its category, the value is not null/undefined and the correct
\* answer is that item's name; conversely every stringified value other than
\* 'null' filed for exactly one item under a schema property yields such a
\* question.
C1_SingleFactsExactlyTheUniqueValues ==
    output.done =>
        /\ \A q \in PoolQuestions :
               q.type = "property->name" =>
                   LET items == rawData[q.category]
                       held == HoldersOfText(items, q.property, q.value.s)
                   IN  /\ Cardinality(held) = 1
                       /\ \A n \in held : q.correct = Str(items[n].name)
        /\ \A c \in selectedCategories :
               LET items == rawData[c]
               IN  \A n \in 1..Len(items) :
                       \A p \in PropSet :
                           LET text == ToStr(OrNull(items[n].props[p]))
                           IN  (/\ items[1].props[p] # Undef
                                /\ text # NullText
                                /\ FiledUnder(items, p, text) = {n})
                               => \E q \in PoolQuestions :
                                      /\ q.type = "property->name"
                                      /\ q.category = c
                                      /\ q.property = p
                                      /\ q.value = Str(text)
                                      /\ q.correct = Str(items[n].name)

\* the property subsets of a combination, as index sets of the given size
SubCombos(combo, size) ==
    {PropsAt(combo, f) : f \in IndexTuples(Len(combo), size)}

\* C3 (as claimed): for every 'properties->name' question with k properties,
\* no subset of size < k of them, a single property included, identifies the
\* source item uniquely in its category.
C3_NoSmallerSubsetUnique ==
    output.done =>
        \A q \in PoolQuestions :
            q.type = "properties->name" =>
                LET items == rawData[q.category]
                IN  \A size \in 1..(Len(q.properties) - 1) :
                        \A sub \in SubCombos(q.properties, size) :
                            ~Qualifies(items[q.sourceItem], items, sub)

\* C3 (amended): for every 'properties->name' question with k properties,
\* the combination identifies the source item uniquely and no subset of
\* size s with 2 <= s < k of them does; a single property of it may.
C3_NoSmallerComboUnique ==
    output.done =>
        \A q \in PoolQuestions :
            q.type = "properties->name" =>
                LET items == rawData[q.category]
                IN  /\ Qualifies(items[q.sourceItem], items, q.properties)
                    /\ \A size \in 2..(Len(q.properties) - 1) :
                           \A sub \in SubCombos(q.properties, size) :
                               ~Qualifies(items[q.sourceItem], items, sub)

\* C3 witness: the pool holds a three-property question (no pair of its
\* properties told the item apart).
C3_Witness ==
    /\ output.done
    /\ \E q \in PoolQuestions : q.type = "properties->name" /\ Len(q.properties) = 3

\* C4: for every selected category buildQuestionPool generates no image
\* question when fewer than 2 items carry an image, and exactly one
\* 'name->image' and one 'image->name' question per imaged item otherwise;
\* an item without image is never the subject of an image question.
C4_ImageQuestionsNeedTwoImagedItems ==
    output.done =>
        \A c \in selectedCategories :
            \A type \in {"name->image", "image->name"} :
                LET items == rawData[c]
                    imaged == {n \in 1..Len(items) : hasImages(items[n])}
                    about(n) == {i \in PoolIndices(type, c) :
                                    /\ questionPool[i].sourceItem = n
                                    /\ questionPool[i].name = Str(items[n].name)}
                IN  /\ Cardinality(imaged) < 2 => PoolIndices(type, c) = {}
                    /\ Cardinality(imaged) >= 2 =>
                           \A n \in imaged : Cardinality(about(n)) = 1
                    /\ \A i \in PoolIndices(type, c) : questionPool[i].sourceItem \in imaged

\* C4 witness: a selected category with exactly one imaged item has had its
\* pool built, next to one with exactly two imaged items among three.
C4_Witness ==
    /\ output.done
    /\ selectedCategories = Categories
    /\ Len(rawData["c1"]) = 3
    /\ Cardinality({n \in 1..3 : hasImages(rawData["c1"][n])}) = 2
    /\ Cardinality(PoolIndices("name->image", "c1")) = 2
    /\ Cardinality(PoolIndices("image->name", "c2")) = 2

-----------------------------------------------------------------------------
(* Specification SpecChoices: the choice helpers and renderNameToImage on  *)
(* a category c1 of up to MaxChoiceItems items; input names the call.      *)

\* image configurations: every item may carry the same single image, the
\* first item may carry an images array instead
ChoiceImageCategories ==
    UNION {{[i \in 1..n |-> [name |-> ItemNames[i], props |-> OnlyProps(<<>>),
                             image |-> cfg[i].image, images |-> cfg[i].images]] :
                cfg \in {c \in [1..n -> ImageConfigs(1)] :
                            \A i \in 1..n : /\ c[i].image # Str(<<"i", "2">>)
                                            /\ (i > 1 => c[i].images = <<>>)}} :
           n \in 1..MaxChoiceItems}

\* the scalar item i may hold alone: 0, '0', 1, '1', 2, ... (equal as keys
\* in pairs, different as values)
OwnValue(i) ==
    LET digit == IndexKeys[(((i - 1) \div 2) % Len(IndexKeys)) + 1]
    IN  IF i % 2 = 1 THEN Num(digit) ELSE Str(digit)

\* property configurations: each item holds its own value or none; the
\* first two may hold the shared value x
ChoiceValueCategories ==
    UNION {{[i \in 1..n |-> NoImage(ItemNames[i], OnlyProps([p1 |-> v[i]]))] :
                v \in {w \in [1..n -> {Null, X} \cup {OwnValue(i) : i \in 1..n}] :
                          \A i \in 1..n : \/ w[i] \in {Null, OwnValue(i)}
                                          \/ (w[i] = X /\ i <= 2)}} :
           n \in 1..MaxChoiceItems}

\* the 'name->image' and 'image->name' questions buildQuestionPool can
\* generate for the category
ImageQuestionsOf(cat, items, type) ==
    UNION {Range(ImageQuestions(cat, items, type, picks)) :
               picks \in ImagePicks(items, ItemsWithImages(items), 1)}

ChoiceCalls(items) ==
    {[fn |-> "pickNameChoices", correct |-> Str(items[n].name), property |-> "",
      q |-> <<>>] : n \in 1..Len(items)}
    \cup {[fn |-> "pickNameChoicesFromImageItems", correct |-> q.name, property |-> "",
           q |-> q] : q \in ImageQuestionsOf("c1", items, "image->name")}
    \cup {[fn |-> "renderNameToImage", correct |-> q.name, property |-> "",
           q |-> q] : q \in ImageQuestionsOf("c1", items, "name->image")}
    \cup {[fn |-> "pickPropertyChoices", correct |-> items[n].props[p], property |-> p,
           q |-> <<>>] : n \in {m \in 1..Len(items) : ~IsNullish(items[m].props["p1"])},
                         p \in {"p1"}}

InitChoices ==
    /\ \E items \in ChoiceImageCategories \cup ChoiceValueCategories :
           /\ rawData = [c \in Categories |-> IF c = "c1" THEN items ELSE <<>>]
           /\ input \in ChoiceCalls(items)
    /\ selectedCategories = {"c1"}
    /\ questionPool = <<>>
    /\ SessionIdle("ok")
    /\ output = NotRun

PickNameChoices ==
    /\ ~output.done
    /\ input.fn = "pickNameChoices"
    /\ \E r \in pickNameChoices(rawData, "c1", input.correct, MAX_OPTIONS) :
           output' = Returned(r)
    /\ UNCHANGED <<input, progVars>>

PickNameChoicesFromImageItems ==
    /\ ~output.done
    /\ input.fn = "pickNameChoicesFromImageItems"
    /\ \E r \in pickNameChoicesFromImageItems(rawData, "c1", input.correct, MAX_OPTIONS) :
           output' = Returned(r)
    /\ UNCHANGED <<input, progVars>>

PickPropertyChoices ==
    /\ ~output.done
    /\ input.fn = "pickPropertyChoices"
    /\ \E r \in pickPropertyChoices(rawData, "c1", input.property, input.correct,
                                    MAX_OPTIONS) :
           output' = Returned(r)
    /\ UNCHANGED <<input, progVars>>

RenderNameToImage ==
    /\ ~output.done
    /\ input.fn = "renderNameToImage"
    /\ \E r \in renderNameToImage(rawData, input.q) : output' = Returned(r)
    /\ UNCHANGED <<input, progVars>>

NextChoices ==
    \/ PickNameChoices
    \/ PickNameChoicesFromImageItems
    \/ PickPropertyChoices
    \/ RenderNameToImage

SpecChoices == InitChoices /\ [][NextChoices]_vars

\* how often value occurs in list
Occurrences(list, value) == Cardinality({i \in 1..Len(list) : list[i] = value})

AllDistinct(list) == \A i, j \in 1..Len(list) : i # j => list[i] # list[j]

\* C5: with count = 4, pickNameChoices and pickPropertyChoices return, for
\* every correct answer of the category and every outcome of the shuffles, a
\* list that holds the correct answer exactly once, has all values distinct
\* and has length min(4, size of the candidate pool).
C5_ChoicesHoldCorrectOnce ==
    (output.done /\ input.fn \in {"pickNameChoices", "pickPropertyChoices"}) =>
        LET items == rawData["c1"]
            pool == IF input.fn = "pickNameChoices"
                    THEN {Str(items[n].name) : n \in 1..Len(items)}
                    ELSE {items[n].props[input.property] : n \in 1..Len(items)}
                         \ {Null, Undef}
        IN  /\ Occurrences(output.r, input.correct) = 1
            /\ AllDistinct(output.r)
            /\ Len(output.r) = Min(4, Cardinality(pool))

\* C5 witness: pickPropertyChoices has returned 4 of 5 candidate values.
C5_Witness ==
    /\ output.done
    /\ input.fn = "pickPropertyChoices"
    /\ Len(output.r) = 4
    /\ Cardinality({rawData["c1"][n].props["p1"] : n \in 1..Len(rawData["c1"])}
                   \ {Null, Undef}) = 5

\* C6: the options renderNameToImage renders for a 'name->image' question
\* hold an option labelled with the asked item's name, number at most
\* MAX_OPTIONS and include at least one other option, for every outcome of
\* the shuffles.
C6_AskedItemAmongImageOptions ==
    (output.done /\ input.fn = "renderNameToImage") =>
        /\ \E i \in 1..Len(output.r) : output.r[i].label = input.q.name
        /\ Len(output.r) <= MAX_OPTIONS
        /\ \E i \in 1..Len(output.r) : output.r[i].label # input.q.name

\* C6 witness: a question of a category with more than 4 imaged items, two
\* of them sharing an image reference, has been rendered.
C6_Witness ==
    /\ output.done
    /\ input.fn = "renderNameToImage"
    /\ Len(ItemsWithImages(rawData["c1"])) > MAX_OPTIONS
    /\ rawData["c1"][2].image = rawData["c1"][3].image
    /\ Len(output.r) = MAX_OPTIONS

\* the names of the items of c1 that carry an image
ImagedNames == {Str(rawData["c1"][n].name) :
                   n \in {m \in 1..Len(rawData["c1"]) : hasImages(rawData["c1"][m])}}

\* C7 (as claimed): every option pickNameChoicesFromImageItems returns for an
\* 'image->name' question is the name of an item that carries an image.
C7_OptionsAreImagedItems ==
    (output.done /\ input.fn = "pickNameChoicesFromImageItems") =>
        Range(output.r) \subseteq ImagedNames

\* C7 (amended): every option is the name of an item of the category, and
\* the name of an item that carries an image whenever at least 3 (count - 1)
\* items of the category carry one.
C7_OptionsAreImagedItemsWhenThreeImaged ==
    (output.done /\ input.fn = "pickNameChoicesFromImageItems") =>
        /\ Range(output.r) \subseteq Range(NamesOf(rawData["c1"]))
        /\ Cardinality(ImagedNames) >= 3 => Range(output.r) \subseteq ImagedNames

\* C7 witness: options were drawn in a category with 3 imaged items and 2
\* items without image.
C7_Witness ==
    /\ output.done
    /\ input.fn = "pickNameChoicesFromImageItems"
    /\ Len(rawData["c1"]) = 5
    /\ Cardinality(ImagedNames) = 3
    /\ Len(output.r) = 3

-----------------------------------------------------------------------------
(* Specification Spec: the page from the load of the script on.  init()    *)
(* fetches one of QuizFiles; the user then edits percentages, starts       *)
(* sessions, answers, advances and ends them.  index.html is not part of   *)
(* src/: following the documented Setup state, #setup starts visible and   *)
(* #quizArea hidden, the Start button and the category controls lie in     *)
(* #setup, the form and the Next and End buttons in #quizArea, and a       *)
(* hidden control cannot be operated.                                      *)

MaxTypedLen == 1    \* longest text typed into the answer field

\* texts the user can submit in the answer field
TypedValues == SeqsUpTo(Alphabet, MaxTypedLen)

\* values of #numQuestions when Start is clicked
NumQuestionsValues == {<<"0">>, <<"-", "1">>, <<"3">>}

\* what localStorage holds under 'quiz_highscore' when the script loads
StoredHighscores == {Null, Str(<<"x">>)}

\* what the user can leave in an input.typed-prob (NoNumber: emptied)
TypedProbEdits == {NoNumber}

\* two items of which only the asked one holds p1, a number: the pool of
\* the category is a 'property->name' and a 'name->property' question
\* about the asked item
NamedCategory(asked, other) ==
    <<NoImage(asked, OnlyProps([p1 |-> Num(<<"1">>)])),
      NoImage(other, OnlyProps([p1 |-> Null]))>>

\* two imaged items told apart by p1, one short name and one long
ImagedCategory ==
    <<[name |-> ItemNames[1], props |-> OnlyProps([p1 |-> X]),
       image |-> Str(<<"i", "1">>), images |-> <<>>],
      [name |-> ItemNames[6], props |-> OnlyProps([p1 |-> Y]),
       image |-> Str(<<"i", "2">>), images |-> <<>>]>>

\* what data.json can hold, as [data, meta]: typed: false beside imaged
\* items typed at 50 (a percentage); names typed at the default probability
\* beside an empty category without metadata
QuizFiles ==
    {[data |-> [c \in Categories |->
                   IF c = "c1" THEN NamedCategory(ItemNames[1], ItemNames[6])
                   ELSE ImagedCategory],
      meta |-> [c \in Categories |->
                   IF c = "c1" THEN Meta(FALSE, 50) ELSE Meta(TRUE, 5000)]],
     [data |-> [c \in Categories |->
                   IF c = "c1" THEN NamedCategory(ItemNames[1], ItemNames[6])
                   ELSE <<>>],
      meta |-> [c \in Categories |->
                   IF c = "c1" THEN Meta(TRUE, NoNumber) ELSE NoMeta]]}

Init ==
    /\ rawData = [c \in Categories |-> <<>>]
    /\ selectedCategories = {}
    /\ questionPool = <<>>
    /\ currentSessionQuestions = <<>>
    /\ currentQuestionIndex = 0 - 1
    /\ sessionScore = 0
    /\ sessionStreak = 0
    /\ highscore \in StoredHighscores
    /\ bestStreak = StoredBestStreak(highscore)
    /\ typedProbByCategory = [c \in Categories |-> NoNumber]
    /\ typedProbInput = [c \in Categories |-> NoNumber]
    /\ categoryMeta = [c \in Categories |-> NoMeta]
    /\ fetched = "pending"
    /\ setupHidden = FALSE
    /\ quizAreaHidden = TRUE
    /\ form = NoForm
    /\ nextBtnDisabled \in BOOLEAN
    /\ feedback = NoFeedback
    /\ input = <<>>
    /\ output = NotRun

\* init(): the fetch resolves; categoryMeta and buildCategoryCheckboxes
FetchSucceeds ==
    /\ fetched = "pending"
    /\ fetched' = "ok"
    /\ \E file \in QuizFiles :
           /\ rawData' = file.data
           /\ categoryMeta' = file.meta
    /\ typedProbByCategory' =
           [c \in Categories |->
               IF EnabledForTyped(categoryMeta'[c])
               THEN pctToFraction(InitialPct(categoryMeta'[c]))
               ELSE typedProbByCategory[c]]
    /\ typedProbInput' =
           [c \in Categories |->
               IF EnabledForTyped(categoryMeta'[c])
               THEN InitialPct(categoryMeta'[c]) ELSE NoNumber]
    /\ UNCHANGED <<selectedCategories, questionPool, currentSessionQuestions,
                   currentQuestionIndex, counters, setupHidden, quizAreaHidden,
                   form, nextBtnDisabled, feedback, input, output>>

\* init(): the fetch fails; showFatal, no listener is attached
FetchFails ==
    /\ fetched = "pending"
    /\ fetched' = "failed"
    /\ UNCHANGED <<dataVars, currentSessionQuestions, currentQuestionIndex, counters,
                   typedProbByCategory, categoryMeta, typedProbInput, setupHidden,
                   quizAreaHidden, form, nextBtnDisabled, feedback, input, output>>

\* listeners that are there whatever became of the fetch
ListenersAttached_Always == TRUE

\* init() has got past the fetch: the category controls are built and the
\* listeners of #startBtn, #nextBtn and #endBtn are attached
ListenersAttached == fetched = "ok"

\* the 'input' listener of a category's input.typed-prob
EditTypedProb ==
    /\ ListenersAttached
    /\ ~setupHidden
    /\ \E cat \in Categories, v \in TypedProbEdits :
           /\ EnabledForTyped(categoryMeta[cat])
           /\ typedProbInput' = [typedProbInput EXCEPT ![cat] = EditedPct(v)]
           /\ typedProbByCategory' =
                  [typedProbByCategory EXCEPT ![cat] = pctToFraction(EditedPct(v))]
    /\ UNCHANGED <<dataVars, currentSessionQuestions, currentQuestionIndex, counters,
                   categoryMeta, fetched, setupHidden, quizAreaHidden, form,
                   nextBtnDisabled, feedback, input, output>>

\* SessionQuestions without Math.max(1, ...): the count read is the end of
\* the slice
SessionQuestions_NoFloor(shuffled, numQuestions) ==
    SliceTo(shuffled, parseInt(IF numQuestions = <<>> THEN <<"2", "0">>
                               ELSE numQuestions))

\* startQuiz(): the first n questions of the shuffled pool, n read from the
\* text of #numQuestions ('20' when empty)
SessionQuestions(shuffled, numQuestions) ==
    SliceTo(shuffled, AtLeastOne(parseInt(IF numQuestions = <<>> THEN <<"2", "0">>
                                          ELSE numQuestions)))

\* NoCategorySelected placed after the pool and the session are rebuilt
NoCategorySelected_AfterBuild ==
    /\ feedback' = showToast("Please select at least one category.")
    /\ questionPool' = <<>>
    /\ currentSessionQuestions' = <<>>
    /\ UNCHANGED <<currentQuestionIndex, counters, typedProbByCategory,
                   setupHidden, quizAreaHidden, form, nextBtnDisabled>>

\* startQuiz() when no category is checked: a toast, and the return
NoCategorySelected ==
    /\ feedback' = showToast("Please select at least one category.")
    /\ UNCHANGED <<questionPool, currentSessionQuestions,
                   currentQuestionIndex, counters, typedProbByCategory,
                   setupHidden, quizAreaHidden, form, nextBtnDisabled>>

\* NoValidQuestions placed after the counters and the index are reset
NoValidQuestions_AfterReset ==
    /\ feedback' = showToast("No valid questions available for these categories.")
    /\ sessionScore' = 0
    /\ sessionStreak' = 0
    /\ currentQuestionIndex' = 0 - 1
    /\ UNCHANGED <<bestStreak, highscore, setupHidden, quizAreaHidden, form,
                   nextBtnDisabled>>

\* startQuiz() when the session drawn is empty: a toast, and the return
NoValidQuestions ==
    /\ feedback' = showToast("No valid questions available for these categories.")
    /\ UNCHANGED <<currentQuestionIndex, counters, setupHidden,
                   quizAreaHidden, form, nextBtnDisabled>>

\* startQuiz() without the reset of sessionScore and sessionStreak
StartQuiz_KeepScore ==
    /\ ListenersAttached
    /\ ~setupHidden
    /\ \E selected \in SUBSET Categories :
        /\ selectedCategories' = selected
        /\ IF selected = {}
           THEN NoCategorySelected
           ELSE LET probs == [c \in Categories |->
                                 IF c \in selected
                                 THEN StartProb(c, categoryMeta, typedProbByCategory,
                                                typedProbInput)
                                 ELSE typedProbByCategory[c]]
                IN  /\ typedProbByCategory' = probs
                    /\ questionPool' \in buildQuestionPool(rawData, selected)
                    /\ \E shuffled \in Shuffles(questionPool'),
                          numQuestions \in NumQuestionsValues :
                           currentSessionQuestions' =
                               SessionQuestions(shuffled, numQuestions)
                    /\ IF Len(currentSessionQuestions') = 0
                       THEN NoValidQuestions
                       ELSE /\ UNCHANGED counters
                            /\ setupHidden' = TRUE
                            /\ quizAreaHidden' = FALSE
                            /\ nextQuestion(0 - 1, currentSessionQuestions', sessionScore,
                                            bestStreak, probs)
    /\ UNCHANGED <<rawData, categoryMeta, fetched, typedProbInput, input, output>>

\* startQuiz(), the categories checked and #numQuestions being its inputs
StartQuiz ==
    /\ ListenersAttached
    /\ ~setupHidden
    /\ \E selected \in SUBSET Categories :
        /\ selectedCategories' = selected
        /\ IF selected = {}
           THEN NoCategorySelected
           ELSE LET probs == [c \in Categories |->
                                 IF c \in selected
                                 THEN StartProb(c, categoryMeta, typedProbByCategory,
                                                typedProbInput)
                                 ELSE typedProbByCategory[c]]
                IN  /\ typedProbByCategory' = probs
                    /\ questionPool' \in buildQuestionPool(rawData, selected)
                    /\ \E shuffled \in Shuffles(questionPool'),
                          numQuestions \in NumQuestionsValues :
                           currentSessionQuestions' =
                               SessionQuestions(shuffled, numQuestions)
                    /\ IF Len(currentSessionQuestions') = 0
                       THEN NoValidQuestions
                       ELSE /\ sessionScore' = 0
                            /\ sessionStreak' = 0
                            /\ UNCHANGED <<bestStreak, highscore>>
                            /\ setupHidden' = TRUE
                            /\ quizAreaHidden' = FALSE
                            /\ nextQuestion(0 - 1, currentSessionQuestions', 0,
                                            bestStreak, probs)
    /\ UNCHANGED <<rawData, categoryMeta, fetched, typedProbInput, input, output>>

\* the question on display; the submit callbacks close over it
CurrentQuestion == currentSessionQuestions[currentQuestionIndex + 1]

\* ClickSubmit with the dataset.answered test of its listener left out:
\* every click on the button reads the form and judges it
ClickSubmit_JudgeAgain ==
    /\ ~quizAreaHidden
    /\ form.kind = "choice"
    /\ \E selected \in 0..Len(form.options) :
           IF selected = 0
           THEN /\ feedback' = showToast("Pick an answer first.")
                /\ UNCHANGED <<counters, form, nextBtnDisabled, currentQuestionIndex>>
           ELSE LET val == OptionValue(form.options[selected])
                IN  /\ form' = [form EXCEPT !.answered = TRUE, !.value = val]
                    /\ IF val = CorrectOf(CurrentQuestion)
                       THEN handleCorrect(Undef)
                       ELSE handleWrong
                    /\ nextBtnDisabled' = FALSE
                    /\ UNCHANGED currentQuestionIndex
    /\ UNCHANGED <<dataVars, currentSessionQuestions, typedProbByCategory, categoryMeta,
                   fetched, typedProbInput, setupHidden, quizAreaHidden, input, output>>

\* the click listener hookSubmit() puts on the submit button, the radio
\* checked (0: none) being its input
ClickSubmit ==
    /\ ~quizAreaHidden
    /\ form.kind = "choice"
    /\ IF form.answered
       THEN /\ nextQuestion(currentQuestionIndex, currentSessionQuestions, sessionScore,
                            bestStreak, typedProbByCategory)
            /\ UNCHANGED counters
       ELSE \E selected \in 0..Len(form.options) :
               IF selected = 0
               THEN /\ feedback' = showToast("Pick an answer first.")
                    /\ UNCHANGED <<counters, form, nextBtnDisabled, currentQuestionIndex>>
               ELSE LET val == OptionValue(form.options[selected])
                    IN  /\ form' = [form EXCEPT !.answered = TRUE, !.value = val]
                        /\ IF val = CorrectOf(CurrentQuestion)
                           THEN handleCorrect(Undef)
                           ELSE handleWrong
                        /\ nextBtnDisabled' = FALSE
                        /\ UNCHANGED currentQuestionIndex
    /\ UNCHANGED <<dataVars, currentSessionQuestions, typedProbByCategory, categoryMeta,
                   fetched, typedProbInput, setupHidden, quizAreaHidden, input, output>>

\* the click listener hookTextSubmit() puts on the submit button (Enter in
\* the field clicks it), the text in the field being its input
ClickTextSubmit ==
    /\ ~quizAreaHidden
    /\ form.kind = "typed"
    /\ IF form.answered
       THEN /\ nextQuestion(currentQuestionIndex, currentSessionQuestions, sessionScore,
                            bestStreak, typedProbByCategory)
            /\ UNCHANGED counters
       ELSE \E val \in TypedValues :
               IF val = <<>> \/ Trim(val) = <<>>
               THEN /\ feedback' = showToast("Type an answer first.")
                    /\ UNCHANGED <<counters, form, nextBtnDisabled, currentQuestionIndex>>
               ELSE LET correctName == CorrectOf(CurrentQuestion)
                        cmp == compareAnswers(Trim(val), ToStr(correctName))
                    IN  /\ form' = [form EXCEPT !.answered = TRUE, !.value = Str(val)]
                        /\ CASE cmp = "exact" -> handleCorrect(Undef)
                             [] cmp = "fuzzy" -> handleCorrect(correctName)
                             [] OTHER -> handleWrong
                        /\ nextBtnDisabled' = FALSE
                        /\ UNCHANGED currentQuestionIndex
    /\ UNCHANGED <<dataVars, currentSessionQuestions, typedProbByCategory, categoryMeta,
                   fetched, typedProbInput, setupHidden, quizAreaHidden, input, output>>

\* nextQuestion() as the click listener of #nextBtn
NextQuestion ==
    /\ ListenersAttached
    /\ ~quizAreaHidden
    /\ ~nextBtnDisabled
    /\ nextQuestion(currentQuestionIndex, currentSessionQuestions, sessionScore,
                    bestStreak, typedProbByCategory)
    /\ UNCHANGED <<dataVars, currentSessionQuestions, counters, typedProbByCategory,
                   categoryMeta, fetched, typedProbInput, setupHidden, quizAreaHidden,
                   input, output>>

\* endSession() that also empties the pool and the session's questions
EndSession_ClearQuestions ==
    /\ ListenersAttached
    /\ ~quizAreaHidden
    /\ setupHidden' = FALSE
    /\ quizAreaHidden' = TRUE
    /\ questionPool' = <<>>
    /\ currentSessionQuestions' = <<>>
    /\ UNCHANGED <<rawData, selectedCategories, currentQuestionIndex, counters,
                   typedProbByCategory, categoryMeta, fetched, typedProbInput, form,
                   nextBtnDisabled, feedback, input, output>>

\* endSession(), from #endBtn or the End Session button of finishSession()
EndSession ==
    /\ ListenersAttached
    /\ ~quizAreaHidden
    /\ setupHidden' = FALSE
    /\ quizAreaHidden' = TRUE
    /\ UNCHANGED <<dataVars, currentSessionQuestions, currentQuestionIndex, counters,
                   typedProbByCategory, categoryMeta, fetched, typedProbInput, form,
                   nextBtnDisabled, feedback, input, output>>

\* the timer of showToast(): the message is cleared if still on display
ToastExpires ==
    /\ feedback.kind = "toast"
    /\ feedback' = NoFeedback
    /\ UNCHANGED <<dataVars, currentSessionQuestions, currentQuestionIndex, counters,
                   typedProbByCategory, categoryMeta, fetched, typedProbInput,
                   setupHidden, quizAreaHidden, form, nextBtnDisabled, input, output>>

Next ==
    \/ FetchSucceeds
    \/ FetchFails
    \/ EditTypedProb
    \/ StartQuiz
    \/ ClickSubmit
    \/ ClickTextSubmit
    \/ NextQuestion
    \/ EndSession
    \/ ToastExpires

Spec == Init /\ [][Next]_vars

\* a step in which the form accepts an answer for the question on display
AnswerAccepted == form.kind \in {"choice", "typed"} /\ ~form.answered /\ form'.answered

\* how the expected name compares with the text in the answered typed form
TypedComparison(f) == compareAnswers(f.value.s, ToStr(CorrectOf(CurrentQuestion)))

\* what an accepted correct answer does to the counters
ScoredAsCorrect ==
    /\ sessionScore' = sessionScore + 1
    /\ sessionStreak' = sessionStreak + 1
    /\ bestStreak' = IF Exceeds(sessionStreak + 1, bestStreak)
                     THEN Numeric(sessionStreak + 1) ELSE bestStreak

\* C9: a typed answer that compares as 'fuzzy' with the expected name is
\* scored as a correct answer (score + 1, streak + 1, best streak raised if
\* exceeded) and the positive feedback shows the expected name; one that
\* compares as 'exact' gets positive feedback without a spelling; one that
\* compares as 'no' resets the streak to 0 and leaves the score.
C9_TypedVerdicts ==
    [][(AnswerAccepted /\ form.kind = "typed") =>
           LET cmp == TypedComparison(form')
           IN  /\ cmp = "fuzzy" =>
                      /\ ScoredAsCorrect
                      /\ feedback'.kind = "correct"
                      /\ feedback'.note = CorrectOf(CurrentQuestion)
               /\ cmp = "exact" =>
                      /\ feedback'.kind = "correct"
                      /\ feedback'.note = Undef
               /\ cmp = "no" =>
                      /\ sessionStreak' = 0
                      /\ sessionScore' = sessionScore]_vars

\* C9 witness: the second fuzzy answer in a row has been accepted and the
\* feedback shows the expected spelling.
C9_Witness ==
    /\ ~quizAreaHidden
    /\ form.kind = "typed"
    /\ form.answered
    /\ TypedComparison(form) = "fuzzy"
    /\ feedback.kind = "correct"
    /\ feedback.note = CorrectOf(CurrentQuestion)
    /\ sessionStreak = 2
    /\ bestStreak = Numeric(2)

\* the answer read from the form is judged correct: the selected value is
\* the expected answer, or the typed text compares as exact or fuzzy
JudgedCorrect(f) ==
    IF f.kind = "typed" THEN TypedComparison(f) # "no"
    ELSE f.value = CorrectOf(CurrentQuestion)

\* C10: an accepted correct answer adds 1 to sessionScore and to
\* sessionStreak and sets bestStreak to the new streak iff the new streak
\* exceeds it; an accepted wrong answer leaves sessionScore and bestStreak
\* and sets sessionStreak to 0 in the same step.
C10_CountersFollowVerdict ==
    [][AnswerAccepted =>
           IF JudgedCorrect(form')
           THEN ScoredAsCorrect /\ feedback'.kind = "correct"
           ELSE /\ sessionScore' = sessionScore
                /\ bestStreak' = bestStreak
                /\ sessionStreak' = 0
                /\ feedback'.kind = "wrong"]_vars

\* C10 witness: a wrong choice has just reset a streak that had raised the
\* best streak to 2.
C10_Witness ==
    /\ ~quizAreaHidden
    /\ form.kind = "choice"
    /\ form.answered
    /\ feedback.kind = "wrong"
    /\ sessionScore = 2
    /\ sessionStreak = 0
    /\ bestStreak = Numeric(2)
    /\ highscore = Str(<<"2">>)

\* the question on display has been answered and is still on display
Answered == ~quizAreaHidden /\ form.kind \in {"choice", "typed"} /\ form.answered

-----------------------------------------------------------------------------
(* Specification SpecStart: the draw of a session in startQuiz(), from the *)
(* pool buildQuestionPool() has just built and the text of #numQuestions.  *)

\* texts of #numQuestions: empty, integers around the sizes of the pools,
\* and a text that is no number
NumQuestionsTexts ==
    {<<>>, <<"0">>, <<"-", "1">>, <<"1">>, <<"2">>, <<"3">>, <<"5">>, <<"x">>}

\* values of p1 in the datasets of SpecStart: null, '', a name, 0
StartValues == {Null, Str(<<>>), Str(ItemNames[1]), Num(<<"0">>)}

StartDatasets ==
    {[c \in Categories |-> IF c = "c1" THEN items ELSE <<>>] :
        items \in {e \in EdgeCategories :
                      \A i \in 1..Len(e) : e[i].props["p1"] \in StartValues}}

InitStart ==
    /\ rawData \in StartDatasets
    /\ selectedCategories = {"c1"}
    /\ questionPool \in buildQuestionPool(rawData, selectedCategories)
    /\ SessionIdle("ok")
    /\ input \in NumQuestionsTexts
    /\ output = NotRun

DrawSession ==
    /\ ~output.done
    /\ \E shuffled \in Shuffles(questionPool) :
           currentSessionQuestions' = SessionQuestions(shuffled, input)
    /\ output' = Returned(<<>>)
    /\ UNCHANGED <<dataVars, currentQuestionIndex, counters, typedProbByCategory,
                   categoryMeta, fetched, typedProbInput, setupHidden, quizAreaHidden,
                   form, nextBtnDisabled, feedback, input>>

NextStart == DrawSession

SpecStart == InitStart /\ [][NextStart]_vars

\* the text is an integer: digits, with or without a minus sign before
IsInteger(text) ==
    LET digits == IF text # <<>> /\ text[1] = "-" THEN Tail(text) ELSE text
    IN  digits # <<>> /\ \A i \in 1..Len(digits) : IsDigit(digits[i])

\* the integer the text denotes
IntegerOf(text) ==
    IF text[1] = "-" THEN 0 - DigitsValue(Tail(text)) ELSE DigitsValue(text)

\* C12: with a requested count n and a freshly built pool of P > 0
\* questions, the session drawn has exactly min(max(1, n), P) questions, all
\* distinct members of the pool: 5 from a pool of 3 gives 3, and 0 or a
\* negative count gives 1.
C12_SessionSize ==
    (output.done /\ IsInteger(input) /\ Len(questionPool) > 0) =>
        /\ Len(currentSessionQuestions) =
               Min(Max(1, IntegerOf(input)), Len(questionPool))
        /\ AllDistinct(currentSessionQuestions)
        /\ Range(currentSessionQuestions) \subseteq Range(questionPool)

\* C12 witness: 5 questions were requested from a pool of 3 and the session
\* holds 3.
C12_Witness ==
    /\ output.done
    /\ input = <<"5">>
    /\ Len(questionPool) = 3
    /\ Len(currentSessionQuestions) = 3

-----------------------------------------------------------------------------
(* Claims on specification Spec about starting a session.                  *)

\* a click on Start that finds no category checked and shows the toast
StartWithoutCategory ==
    /\ fetched = "ok"
    /\ ~setupHidden
    /\ selectedCategories' = {}
    /\ feedback' = showToast("Please select at least one category.")
    /\ (feedback' # feedback \/ selectedCategories' # selectedCategories)

\* C13: startQuiz with no category selected is rejected: the page stays in
\* the setup view and questionPool, currentSessionQuestions,
\* currentQuestionIndex, sessionScore, sessionStreak and bestStreak keep
\* their values.
C13_NoCategoryNoStart ==
    [][StartWithoutCategory =>
           /\ UNCHANGED <<questionPool, currentSessionQuestions, currentQuestionIndex,
                          sessionScore, sessionStreak, bestStreak>>
           /\ ~setupHidden'
           /\ quizAreaHidden']_vars

\* C13 witness: after a session that scored, Start was clicked with nothing
\* checked; the pool, the session, the index and the score are still those
\* of the session.
C13_Witness ==
    /\ ~setupHidden
    /\ quizAreaHidden
    /\ selectedCategories = {}
    /\ feedback = showToast("Please select at least one category.")
    /\ questionPool # <<>>
    /\ currentSessionQuestions # <<>>
    /\ currentQuestionIndex >= 1
    /\ sessionScore >= 1
    /\ sessionStreak >= 1

\* a click on Start with categories checked for which the pool built is
\* empty
StartWithEmptyPool ==
    /\ fetched = "ok"
    /\ ~setupHidden
    /\ selectedCategories' # {}
    /\ questionPool' = <<>>
    /\ feedback' = showToast("No valid questions available for these categories.")
    /\ \/ feedback' # feedback
       \/ selectedCategories' # selectedCategories
       \/ questionPool' # questionPool

\* C14: when the pool built for the selected categories is empty, startQuiz
\* fails and the page stays in the setup view: no question is rendered, the
\* current index does not move and the score and the streak are not reset.
C14_EmptyPoolNoStart ==
    [][StartWithEmptyPool =>
           /\ UNCHANGED <<form, currentQuestionIndex, sessionScore, sessionStreak>>
           /\ ~setupHidden'
           /\ quizAreaHidden']_vars

\* C14 witness: after a session that scored, Start was clicked for a
\* category without items; the index, the score and the streak are still
\* those of the session.
C14_Witness ==
    /\ ~setupHidden
    /\ quizAreaHidden
    /\ selectedCategories = {"c2"}
    /\ questionPool = <<>>
    /\ feedback = showToast("No valid questions available for these categories.")
    /\ form.kind = "choice"
    /\ currentQuestionIndex >= 1
    /\ sessionScore >= 1
    /\ sessionStreak >= 1

-----------------------------------------------------------------------------
(* Claims on specification Spec about the course of a session.             *)

\* a successful start: the setup view gives way to the quiz area
SessionStarts == ~setupHidden /\ setupHidden'

\* the session has been finished and no other has started since
Finished == form.kind = "finished"

\* C15: in a session of N questions the current index moves only by
\* advancing, by exactly 1; the step that takes it to N finishes the
\* session and reports the score out of N; from then until the next
\* successful start no answer is submitted and nothing advances, and
\* sessionScore, sessionStreak and currentQuestionIndex keep their values.
C15_AdvanceAndFinish ==
    [][/\ currentQuestionIndex' # currentQuestionIndex =>
              \/ SessionStarts /\ currentQuestionIndex' = 0
              \/ /\ ~SessionStarts
                 /\ currentQuestionIndex' = currentQuestionIndex + 1
                 /\ currentQuestionIndex' <= Len(currentSessionQuestions)
                 /\ UNCHANGED <<currentSessionQuestions, sessionScore, sessionStreak>>
                 /\ Finished' <=> currentQuestionIndex' = Len(currentSessionQuestions)
                 /\ Finished' =>
                        /\ feedback'.kind = "finished"
                        /\ feedback'.score = sessionScore
                        /\ feedback'.total = Len(currentSessionQuestions)
       /\ (Finished /\ ~SessionStarts) =>
              UNCHANGED <<sessionScore, sessionStreak, currentQuestionIndex, form>>
       /\ (Finished /\ ~quizAreaHidden) => nextBtnDisabled]_vars

\* C15 witness: a session of 3 questions is finished with 2 correct answers;
\* the summary reports 2 out of 3.
C15_Witness ==
    /\ ~quizAreaHidden
    /\ Finished
    /\ Len(currentSessionQuestions) = 3
    /\ currentQuestionIndex = 3
    /\ sessionScore = 2
    /\ feedback.kind = "finished"
    /\ feedback.score = 2
    /\ feedback.total = 3
    /\ nextBtnDisabled

\* an early or regular end of the session: back to the setup view
SessionEnds == setupHidden /\ ~setupHidden'

\* C16: bestStreak never decreases, whatever the operation; ending a
\* session and starting a new one leave it unchanged.
C16_BestStreakNeverDecreases ==
    [][/\ \/ bestStreak' = bestStreak
          \/ /\ ~bestStreak.nan
             /\ ~bestStreak'.nan
             /\ bestStreak'.n > bestStreak.n
       /\ (SessionEnds \/ SessionStarts \/ ~setupHidden) =>
              bestStreak' = bestStreak]_vars

\* C16 witness: a later session has started, its streak at 0, and after a
\* wrong answer the best streak is still the 2 of an earlier session.
C16_Witness ==
    /\ ~quizAreaHidden
    /\ currentQuestionIndex = 0
    /\ form.kind \in {"choice", "typed"}
    /\ form.answered
    /\ feedback.kind = "wrong"
    /\ sessionScore = 0
    /\ sessionStreak = 0
    /\ bestStreak = Numeric(2)

\* C17: the best streak read at startup is 0 when nothing or a text that is
\* no number is stored, so that once a first answer has been judged correct
\* the best streak is a number, at least 1, and is what the storage holds.
C17_FirstCorrectAnswerRaisesBest ==
    feedback.kind = "correct" =>
        /\ ~bestStreak.nan
        /\ bestStreak.n >= 1
        /\ highscore = Str(Decimal(bestStreak.n))

\* a question is on display in the quiz area
InProgress == ~quizAreaHidden /\ form.kind \in {"choice", "typed"}

\* C18: a session starts only after the fetch of the data has succeeded.
\* While the fetch is pending and for ever after it has failed, no step
\* changes the selection, the pool, the session, the index, the counters,
\* the views, the form or the feedback, the page shows the setup view
\* without a question, and a failed fetch stays failed.
C18_NoSessionWithoutData ==
    [][fetched # "ok" =>
           /\ UNCHANGED <<selectedCategories, questionPool, currentSessionQuestions,
                          currentQuestionIndex, counters, setupHidden, quizAreaHidden,
                          form, nextBtnDisabled, feedback>>
           /\ ~InProgress
           /\ ~InProgress'
           /\ currentSessionQuestions = <<>>
           /\ fetched = "failed" => UNCHANGED vars]_vars

\* C18 witness: the fetch has failed; the page is as the script's top level
\* left it.
C18_Witness ==
    /\ fetched = "failed"
    /\ rawData = [c \in Categories |-> <<>>]
    /\ quizAreaHidden
    /\ ~setupHidden
    /\ currentQuestionIndex = 0 - 1
    /\ feedback = NoFeedback

-----------------------------------------------------------------------------
(* Claims on specification SpecPool about duplicates and prompts.          *)

\* the signature of a question by the fields that define it: the property,
\* else the property list, else the name; the value, else the value tuple,
\* else the correct answer
DefiningSignature(q) ==
    [type |-> q.type, category |-> q.category,
     key |-> IF q.property # "" THEN <<"property", q.property>>
             ELSE IF q.properties # <<>> THEN <<"properties", q.properties>>
             ELSE <<"name", q.name>>,
     value |-> IF q.value # Undef THEN <<"value", q.value>>
               ELSE IF q.valueTuple # <<>> THEN <<"tuple", q.valueTuple>>
               ELSE <<"correct", q.correct>>]

\* the first occurrence of every defining signature, in the order of arr
FirstOccurrences(arr) ==
    Flatten([i \in 1..Len(arr) |->
        IF \E j \in 1..(i - 1) : DefiningSignature(arr[j]) = DefiningSignature(arr[i])
        THEN <<>> ELSE <<arr[i]>>])

\* C19: after buildQuestionPool no two questions of the pool share the
\* signature (type, category, defining property / property list / name,
\* defining value / value tuple / correct answer); dedupeQuestions keeps the
\* first occurrence of each signature in the order of the questions
\* generated, and applying it again changes nothing.
C19_PoolKeepsFirstOfEachSignature ==
    output.done =>
        /\ \A i, j \in 1..Len(questionPool) :
               i # j => DefiningSignature(questionPool[i])
                            # DefiningSignature(questionPool[j])
        /\ \E generated \in GeneratedFrom(rawData, selectedCategories, 1) :
               LET kept == dedupeQuestions(generated)
               IN  /\ PoolQuestions = Range(kept)
                   /\ kept = FirstOccurrences(generated)
                   /\ dedupeQuestions(kept) = kept

\* the items of the question's category that satisfy its prompt: they hold
\* the value asked by, or the whole value tuple, or carry the image shown,
\* or bear the name asked about
Satisfying(q) ==
    LET items == rawData[q.category]
    IN  {n \in 1..Len(items) :
            CASE q.type = "property->name" ->
                     /\ ~IsNullish(items[n].props[q.property])
                     /\ ToStr(items[n].props[q.property]) = q.value.s
              [] q.type = "properties->name" ->
                     \A i \in 1..Len(q.properties) :
                         OrNull(items[n].props[q.properties[i]]) = q.valueTuple[i]
              [] q.type = "image->name" ->
                     hasImages(items[n]) /\ q.image \in pickRandomImage(items[n])
              [] OTHER -> Str(items[n].name) = q.name}

\* C20: for every question of every type in a freshly built pool the prompt
\* data identifies exactly one item of the category, the source item: no
\* second item has the same property value, the same value tuple, the same
\* shown image or the same asked name.
C20_PromptIdentifiesOneItem ==
    output.done => \A q \in PoolQuestions : Satisfying(q) = {q.sourceItem}

-----------------------------------------------------------------------------
(* Specification SpecRender: renderQuestion() on one question of a freshly *)
(* built pool, under any metadata and any typedProbByCategory.             *)

\* three items told apart by pairs of p1 and p2, one value being a number
PairedCategory ==
    <<NoImage(ItemNames[1], OnlyProps([p1 |-> X, p2 |-> X])),
      NoImage(ItemNames[2], OnlyProps([p1 |-> X, p2 |-> Y])),
      NoImage(ItemNames[3], OnlyProps([p1 |-> Num(<<"1">>), p2 |-> X]))>>

RenderData == [c \in Categories |-> IF c = "c1" THEN PairedCategory ELSE ImagedCategory]

\* metadata of a category: none, typed: false and typed: true
RenderMetas == {NoMeta, Meta(FALSE, 50), Meta(TRUE, NoNumber)}

\* typedProbByCategory[cat]: undefined, 0, 0.5 and 1
RenderProbs == {NoNumber, 0, 50, 100}

InitRender ==
    /\ rawData = RenderData
    /\ selectedCategories = Categories
    /\ questionPool \in {dedupeQuestions(generated) :
                            generated \in GeneratedFrom(rawData, selectedCategories, 1)}
    /\ currentSessionQuestions = <<>>
    /\ currentQuestionIndex = 0 - 1
    /\ sessionScore = 0
    /\ sessionStreak = 0
    /\ highscore = Null
    /\ bestStreak = StoredBestStreak(Null)
    /\ typedProbByCategory \in [Categories -> RenderProbs]
    /\ typedProbInput = [c \in Categories |-> NoNumber]
    /\ categoryMeta \in [Categories -> RenderMetas]
    /\ fetched = "ok"
    /\ setupHidden = TRUE
    /\ quizAreaHidden = FALSE
    /\ form = NoForm
    /\ nextBtnDisabled = TRUE
    /\ feedback = NoFeedback
    /\ input \in 1..Len(questionPool)
    /\ output = NotRun

RenderQuestion ==
    /\ ~output.done
    /\ form' \in renderQuestion(rawData, categoryMeta, typedProbByCategory,
                                questionPool[input])
    /\ output' = Returned(<<>>)
    /\ UNCHANGED <<dataVars, currentSessionQuestions, currentQuestionIndex, counters,
                   typedProbByCategory, categoryMeta, fetched, typedProbInput,
                   setupHidden, quizAreaHidden, nextBtnDisabled, feedback, input>>

NextRender == RenderQuestion

SpecRender == InitRender /\ [][NextRender]_vars

\* the question handed to renderQuestion
Rendered == questionPool[input]

\* C21: the typed form is never built for a question whose category has no
\* metadata or has typed not true, whatever the draw and whatever
\* typedProbByCategory holds, and never for a 'name->property' or a
\* 'name->image' question: the answer expected in a typed form is the name
\* of an item of the category.
C21_TypedOnlyWhereEnabled ==
    (output.done /\ form.kind = "typed") =>
        /\ EnabledForTyped(categoryMeta[Rendered.category])
        /\ Rendered.type \notin {"name->property", "name->image"}
        /\ \E n \in 1..Len(rawData[Rendered.category]) :
               CorrectOf(Rendered) = Str(rawData[Rendered.category][n].name)

\* C21 witness: an 'image->name' question of a category with typed: true is
\* rendered as a typed form while the other category, without metadata,
\* holds the probability 1.
C21_Witness ==
    /\ output.done
    /\ form.kind = "typed"
    /\ Rendered.type = "image->name"
    /\ Rendered.category = "c2"
    /\ categoryMeta["c1"] = NoMeta
    /\ typedProbByCategory["c1"] = 100

-----------------------------------------------------------------------------
(* Claims on specification Spec about the counters of a session.           *)

\* C22: in every reachable state, the setup view after a rejected start and
\* after an abandoned session included, the current index is at least -1
\* and at most the length of currentSessionQuestions.
C22_IndexWithinSession ==
    /\ currentQuestionIndex >= 0 - 1
    /\ currentQuestionIndex <= Len(currentSessionQuestions)

\* a session is in progress or finished, in the quiz area
InSession == ~quizAreaHidden /\ form.kind \in {"choice", "typed", "finished"}

\* the number of questions of the session answered so far: those left
\* behind and the one on display once it is answered
AnsweredSoFar ==
    IF Finished THEN Len(currentSessionQuestions)
    ELSE currentQuestionIndex + (IF form.answered THEN 1 ELSE 0)

\* a <= b where b may be NaN
AtMost(a, b) == ~b.nan /\ a <= b.n

\* C23: while a session of N questions is in progress or finished,
\* 0 <= sessionStreak <= sessionScore <= number of questions answered so far
\* <= currentQuestionIndex + 1 <= N + 1, sessionScore <= N, and
\* sessionStreak <= bestStreak.
C23_CountersOrdered ==
    InSession =>
        /\ 0 <= sessionStreak
        /\ sessionStreak <= sessionScore
        /\ sessionScore <= AnsweredSoFar
        /\ AnsweredSoFar <= currentQuestionIndex + 1
        /\ currentQuestionIndex + 1 <= Len(currentSessionQuestions) + 1
        /\ sessionScore <= Len(currentSessionQuestions)
        /\ AtMost(sessionStreak, bestStreak)

\* a submit click turned down for want of an answer
SubmitTurnedDown ==
    /\ InSession
    /\ feedback' # feedback
    /\ feedback' \in {showToast("Pick an answer first."),
                      showToast("Type an answer first.")}

\* C24: the index moves from a question to the next, or to the end, only
\* after an answer for the question on display has been accepted and
\* judged.  A submit without a selected option or with an empty or blank
\* text shows a notice and changes nothing else; #nextBtn is disabled while
\* the question on display is unanswered; every accepted answer is judged
\* and adds 1 to the number of questions answered, which nothing else
\* changes within a session, so that a finished session of N questions has
\* had N answers judged.
C24_NoAdvanceWithoutAnswer ==
    [][/\ (currentQuestionIndex' = currentQuestionIndex + 1 /\ ~SessionStarts) =>
              Answered
       /\ (Answered' /\ ~Answered) => AnswerAccepted
       /\ (InSession /\ ~Finished /\ ~form.answered) => nextBtnDisabled
       /\ SubmitTurnedDown =>
              UNCHANGED <<dataVars, currentSessionQuestions, currentQuestionIndex,
                          counters, form, nextBtnDisabled, setupHidden, quizAreaHidden>>
       /\ AnswerAccepted =>
              /\ feedback'.kind \in {"correct", "wrong"}
              /\ AnsweredSoFar' = AnsweredSoFar + 1
       /\ SessionStarts => AnsweredSoFar' = 0
       /\ (InSession /\ InSession' /\ ~AnswerAccepted) =>
              /\ AnsweredSoFar' = AnsweredSoFar
              /\ UNCHANGED <<sessionScore, sessionStreak>>
       /\ (InSession' /\ Finished') =>
              AnsweredSoFar' = Len(currentSessionQuestions')]_vars

\* C24 witness: on the second question a submit without an answer was
\* turned down; the question is still unanswered and #nextBtn disabled.
C24_Witness ==
    /\ InSession
    /\ currentQuestionIndex = 1
    /\ ~form.answered
    /\ nextBtnDisabled
    /\ feedback \in {showToast("Pick an answer first."),
                     showToast("Type an answer first.")}
    /\ sessionScore = 1

-----------------------------------------------------------------------------
(* Specification SpecLive: the page of Spec with a user who never ends a   *)
(* session and who keeps answering and advancing: an answer is submitted   *)
(* whenever one stays awaited, and an advance is made whenever one stays   *)
(* possible.  Submits without an answer remain possible at any time.       *)

\* the user submits an answer that the form accepts
SubmitAnswer == (ClickSubmit \/ ClickTextSubmit) /\ AnswerAccepted

\* the user advances, by #nextBtn or by the form's button once relabelled
Advance == NextQuestion \/ ((ClickSubmit \/ ClickTextSubmit) /\ form.answered)

NextLive ==
    \/ FetchSucceeds
    \/ FetchFails
    \/ EditTypedProb
    \/ StartQuiz
    \/ ClickSubmit
    \/ ClickTextSubmit
    \/ NextQuestion
    \/ ToastExpires

SpecLive ==
    /\ Init
    /\ [][NextLive]_vars
    /\ WF_vars(SubmitAnswer)
    /\ WF_vars(Advance)

\* C25: with weak fairness of the submission of answers and of advancing,
\* and without end-session, every session started eventually is finished,
\* its index at N, the number of its questions: one advance per question.
C25_SessionsFinish ==
    InSession ~> (Finished /\ currentQuestionIndex = Len(currentSessionQuestions))

\* C25 witness: a session of 3 questions was never ended and has run to
\* its end without a correct answer.
C25_Witness ==
    /\ InSession
    /\ Finished
    /\ Len(currentSessionQuestions) = 3
    /\ currentQuestionIndex = 3
    /\ sessionScore = 0
    /\ feedback.total = 3

-----------------------------------------------------------------------------
\* the text the answered choice form's selected option showed is the text of
\* the question's correct answer
SelectedShowsCorrect(f) == ToStr(f.value) = ToStr(CorrectOf(CurrentQuestion))

\* C26: a multiple-choice answer whose selected option displays the correct
\* answer of the question is scored as correct (score + 1, streak + 1),
\* whether the correct answer is a string or a number.
C26_DisplayedCorrectIsScored ==
    [][(AnswerAccepted /\ form.kind = "choice" /\ SelectedShowsCorrect(form'))
          => ScoredAsCorrect]_vars

\* C26, strings only: the same for the questions whose correct answer is a
\* string.
C26_StringCorrectIsScored ==
    [][(/\ AnswerAccepted
        /\ form.kind = "choice"
        /\ CorrectOf(CurrentQuestion).t = "str"
        /\ SelectedShowsCorrect(form'))
          => ScoredAsCorrect]_vars

-----------------------------------------------------------------------------
(* Specification SpecTyped: the page once init() has loaded a file whose   *)
(* first category holds two items with names one letter apart, 'a' and     *)
(* 'b', and is enabled for typed answers; the user's actions are those of  *)
(* Spec.                                                                   *)

CloseNamesFile ==
    [data |-> [c \in Categories |->
                  IF c = "c1" THEN NamedCategory(ItemNames[1], ItemNames[2]) ELSE <<>>],
     meta |-> [c \in Categories |->
                  IF c = "c1" THEN Meta(TRUE, NoNumber) ELSE NoMeta]]

InitTyped ==
    /\ rawData = CloseNamesFile.data
    /\ categoryMeta = CloseNamesFile.meta
    /\ fetched = "ok"
    /\ typedProbByCategory =
           [c \in Categories |->
               IF EnabledForTyped(categoryMeta[c])
               THEN pctToFraction(InitialPct(categoryMeta[c])) ELSE NoNumber]
    /\ typedProbInput =
           [c \in Categories |->
               IF EnabledForTyped(categoryMeta[c])
               THEN InitialPct(categoryMeta[c]) ELSE NoNumber]
    /\ selectedCategories = {}
    /\ questionPool = <<>>
    /\ currentSessionQuestions = <<>>
    /\ currentQuestionIndex = 0 - 1
    /\ sessionScore = 0
    /\ sessionStreak = 0
    /\ highscore \in StoredHighscores
    /\ bestStreak = StoredBestStreak(highscore)
    /\ setupHidden = FALSE
    /\ quizAreaHidden = TRUE
    /\ form = NoForm
    /\ nextBtnDisabled \in BOOLEAN
    /\ feedback = NoFeedback
    /\ input = <<>>
    /\ output = NotRun

NextTyped ==
    \/ EditTypedProb
    \/ StartQuiz
    \/ ClickSubmit
    \/ ClickTextSubmit
    \/ NextQuestion
    \/ EndSession
    \/ ToastExpires

SpecTyped == InitTyped /\ [][NextTyped]_vars

\* the text in the typed form f is, once normalized, the name of an item of
\* the question's category other than the question's source item
NamesAnotherItem(f) ==
    LET q == CurrentQuestion
        items == rawData[q.category]
    IN  \E i \in 1..Len(items) :
            /\ i # q.sourceItem
            /\ normalizeForCompare(f.value.s) = normalizeForCompare(items[i].name)

\* C27: a typed answer that, normalized, equals the name of another item of
\* the category than the question's source item is not scored as correct:
\* it leaves sessionScore as it is.
C27_OtherItemsNameNotScored ==
    [][(AnswerAccepted /\ form.kind = "typed" /\ NamesAnotherItem(form'))
          => sessionScore' = sessionScore]_vars

-----------------------------------------------------------------------------
\* the 'name->property' question q2 asks for the fact the 'property->name'
\* question q1 asks by: same category, property and source item, and the
\* value of q1 is the text of the correct answer of q2
SameFact(q1, q2) ==
    /\ q1.type = "property->name"
    /\ q2.type = "name->property"
    /\ q1.category = q2.category
    /\ q1.property = q2.property
    /\ q1.sourceItem = q2.sourceItem
    /\ q1.value.s = ToStr(q2.correct)

\* C28: in a freshly built pool every 'property->name' question has a
\* 'name->property' question for the same fact and every 'name->property'
\* question has a 'property->name' question for the same fact, whatever the
\* scalar value: 'null', '' and 0 included.
C28_SingleFactQuestionsPaired ==
    output.done =>
        /\ \A q1 \in PoolQuestions :
               q1.type = "property->name" => \E q2 \in PoolQuestions : SameFact(q1, q2)
        /\ \A q2 \in PoolQuestions :
               q2.type = "name->property" => \E q1 \in PoolQuestions : SameFact(q1, q2)

-----------------------------------------------------------------------------
\* C29: every step taken while the quiz area is shown (a submit, an advance,
\* the end of the session, the expiry of a notice) leaves rawData,
\* questionPool and currentSessionQuestions as they are, content and order;
\* the pool and the session's questions change only by a click on Start in
\* the setup view, and rawData only when the fetch resolves.
C29_QuestionsChangeOnlyAtStart ==
    [][/\ ~quizAreaHidden =>
              UNCHANGED <<rawData, questionPool, currentSessionQuestions>>
       /\ (questionPool' # questionPool
              \/ currentSessionQuestions' # currentSessionQuestions)
             => /\ ListenersAttached
                /\ ~setupHidden
                /\ selectedCategories' # {}
                /\ UNCHANGED rawData
       /\ rawData' # rawData => fetched = "pending" /\ fetched' = "ok"]_vars

\* C29 witness: a session of 3 questions was ended during its third
\* question, after a correct answer: back in the setup view the pool and
\* the three questions are still there.
C29_Witness ==
    /\ fetched = "ok"
    /\ quizAreaHidden
    /\ ~setupHidden
    /\ form.kind \in {"choice", "typed"}
    /\ currentQuestionIndex = 2
    /\ sessionScore >= 1
    /\ Len(currentSessionQuestions) = 3
    /\ Len(questionPool) >= 3

-----------------------------------------------------------------------------
\* C30: every step that starts a session, whatever the session before it
\* came to, leaves a question on display and unanswered, with the index at
\* 0, sessionScore and sessionStreak at 0 and #nextBtn disabled, and every
\* question of the session is of one of the categories checked.
C30_FreshSessionAtStart ==
    [][SessionStarts =>
          /\ InProgress'
          /\ ~form'.answered
          /\ nextBtnDisabled'
          /\ currentQuestionIndex' = 0
          /\ sessionScore' = 0
          /\ sessionStreak' = 0
          /\ selectedCategories' # {}
          /\ Len(currentSessionQuestions') >= 1
          /\ \A i \in 1..Len(currentSessionQuestions') :
                 currentSessionQuestions'[i].category \in selectedCategories']_vars

\* C30 witness: a session has just started, on the categories' second only,
\* after a session in which an answer was correct (the best streak, 0 or
\* NaN when the page was loaded, is 1).
C30_Witness ==
    /\ InProgress
    /\ ~form.answered
    /\ currentQuestionIndex = 0
    /\ sessionScore = 0
    /\ sessionStreak = 0
    /\ bestStreak = Numeric(1)
    /\ selectedCategories = {"c2"}

=============================================================================
